---- MODULE Spec2Model ----
(***************************************************************************)
(* Ingestion-and-reconciliation engine of coinfrs (Binance collectors,     *)
(* signed API client, daily completeness reconciliation).                  *)
(*                                                                         *)
(* Amounts are Decimal values in the code; here they are integers counted  *)
(* in units of 1e-8 (the reconciliation tolerance is one unit).            *)
(* Times are counted in days for the collectors' time ranges and in        *)
(* 20 ms ticks for the client's request pacing.                            *)
(***************************************************************************)
EXTENDS Integers, Sequences, FiniteSets, TLC

\* ------------------------------------------------------------------------
\* Bounds of the model
\* ------------------------------------------------------------------------
MaxSaves == 2      \* save operations per behaviour of the persistence specs
MaxId == 2         \* exchange-side ids 1..MaxId
MaxAmount == 2     \* raw amounts 1..MaxAmount
MaxTxns == 2       \* transactions between T-2 and T-1
MaxRequests == 3   \* requests issued per behaviour of the client spec
MaxHistory == 2    \* payloads the exchange holds for one collector run
MaxErrors == 2     \* failed requests per collector run
MaxPages == 2      \* pages requested per chunk
PageLimit == 2     \* stands for limit=1000: the length of a full page
MaxRuns == 2       \* consecutive runs of the trade collector
MaxTradeErrors == 1 \* failed symbol fetches over the runs of the trade collector
MaxDay == 5        \* largest end_time, in days, of a chunk_time_range call
MaxChunkDays == 3  \* largest days argument of a chunk_time_range call
MaxAcquires == 3   \* acquire calls per behaviour of the rate limiter spec
MaxBook == 3       \* records the exchange holds for a paginated fetch
MaxIterations == 4 \* iterations of paginate_request's loop that are followed
MaxWindows == 2    \* windows of one minute the rate limiter spec runs for

\* ------------------------------------------------------------------------
\* State
\* ------------------------------------------------------------------------
VARIABLES
    \* persistence store
    tables,        \* table name -> set of rows (each row carries its pid)
    nextPid,       \* next primary key handed out by the store
    uniqueIdx,     \* TRUE when the migration's unique indexes are installed
    now,           \* logical clock behind datetime.utcnow()
    lastSaved,     \* <<table, record>> of the latest completed save, or <<>>
    \* two collector runs sharing the store
    batch,         \* canonical records both runs ingest
    runPc,         \* run -> "query" | "commit" | "done" | "raised"
    runIdx,        \* run -> index into batch
    runExisting,   \* run -> row returned by the run's query (or NoRow)
    \* reconcile_daily
    recDay,            \* day of month of reconciliation_date
    recPc,             \* "start" | "loop" | "returned" | "raised"
    positions_t2,      \* account -> asset -> amount at T-2
    positions_t1,      \* account -> asset -> amount at T-1
    transactions,      \* sequence of transactions between T-2 and T-1
    pending,           \* accounts of all_accounts not yet visited
    discrepancies,     \* result.discrepancies
    reconciled_accounts,
    failed_accounts,
    outcome,           \* account -> "reconciled" | "failed" (how it was counted)
    expectedOf,        \* account -> expected_pos computed for it
    \* API clients sharing one account's credentials
    clk,               \* wall clock, in ticks of 20 ms
    cliPc,             \* client -> "idle" | "sleeping"
    cliWake,           \* client -> tick at which its time.sleep ends
    cliWeight,         \* client -> weight of the request being made
    issued,            \* requests sent so far, as <<tick, weight>>
    weight_used,       \* client -> RateLimiter.weight_used
    weight_window_start, \* client -> RateLimiter.weight_window_start
    \* one collector run
    colKind,           \* "deposit" | "withdraw" | "snapshot"
    colDb,             \* TRUE when get_db() hands out a session, FALSE for None
    colStart,          \* start_date, in days
    colEnd,            \* end_date, in days
    history,           \* what the exchange holds: sequence of raw payloads
    unitIdx,           \* index of the chunk / wallet type being fetched
    pageNo,            \* pages fetched so far in the current chunk
    all_records,       \* records returned by the fetch
    errors,            \* self.errors
    requests,          \* API requests made: [unit, err]
    skipped,           \* units whose fetch ended in an exception handler
    errBudget,         \* failures the exchange may still answer with
    colPc,             \* "idle" | "fetch" | "process" | "returned" | "raised"
    procIdx,           \* index into all_records of the record processed next
    rawSaved,          \* ids of the payloads archived in the raw-audit table
    saved,             \* the run's counters: [records, fees]
    results,           \* the dict collect returned, or NoValue
    raisedBy,          \* exception that left collect, or "none"
    \* runs of the trade collector
    trDb,              \* TRUE when get_db() hands out a session, FALSE for None
    symbolCache,       \* BinanceTradedSymbols: symbol -> "none" | "active" | "inactive"
    exchangePairs,     \* TRADING pairs of binance_exchange_info on the user's assets
    tradeBook,         \* symbol -> the trades the exchange holds for it
    trRun,             \* number of the current run
    trSymbols,         \* symbols discovered by the current run
    trIdx,             \* index into trSymbols of the symbol fetched next
    trPc,              \* "idle" | "start" | "fetch" | "returned" | "raised"
    trErrors,          \* self.errors of the run's collector
    trRequests,        \* symbol fetches made: [run, symbol, code, err]
    trBudget,          \* failures the exchange may still answer with
    trRaw,             \* raw trade payloads archived: <<symbol, trade id>>
    trCount,           \* the counters of results
    trResults,         \* the dict the last finished run returned, or NoValue
    \* one call of a function of the program
    fnCall,            \* the function and its arguments
    fnPc,              \* "idle" | "called" | "returned" | "raised"
    fnOut,             \* what the call returned
    \* one run of the transfer collector
    tfAccount,         \* self.account_type: "main" | "sub"
    tfDb,              \* TRUE when get_db() hands out a session, FALSE for None
    tfAnswers,         \* sub-flow -> what the exchange answers its requests with
    tfPc,              \* "idle" | the sub-flow run next | "done" | "returned" | "raised"
    tfFetched,         \* sub-flows whose fetch was called
    tfErrors,          \* self.errors
    tfRaw,             \* raw payloads archived: <<sub-flow, tranId>>
    tfCounts,          \* the counters of results
    tfResults,         \* the dict collect returned, or NoValue
    tfRaisedBy,        \* exception that left collect, or "none"
    \* coroutines awaiting RateLimiter.acquire of one client
    lock,              \* holder of self.lock, or NoCaller
    acqPc,             \* caller -> "idle" | "lock" | "sleeping"
    acqWeight,         \* caller -> weight argument of its call
    acqWake,           \* caller -> tick at which its asyncio.sleep ends
    granted,           \* completed calls, as [caller, weight, at]
    suspensions,       \* caller -> number of asyncio.sleep calls it made
    idleElapsed        \* TRUE once time passed while no caller was suspended

dbVars == <<tables, nextPid, uniqueIdx, now, lastSaved>>
raceVars == <<batch, runPc, runIdx, runExisting>>
reconVars == <<recDay, recPc, positions_t2, positions_t1, transactions, pending,
               discrepancies, reconciled_accounts, failed_accounts, outcome, expectedOf>>
rateVars == <<clk, cliPc, cliWake, cliWeight, issued, weight_used, weight_window_start>>
colVars == <<colKind, colDb, colStart, colEnd, history, unitIdx, pageNo, all_records,
             errors, requests, skipped, errBudget, colPc, procIdx, rawSaved, saved,
             results, raisedBy>>
tradeVars == <<trDb, symbolCache, exchangePairs, tradeBook, trRun, trSymbols, trIdx, trPc,
               trErrors, trRequests, trBudget, trRaw, trCount, trResults>>
fnVars == <<fnCall, fnPc, fnOut>>
tfVars == <<tfAccount, tfDb, tfAnswers, tfPc, tfFetched, tfErrors, tfRaw, tfCounts, tfResults, tfRaisedBy>>
acqVars == <<lock, acqPc, acqWeight, acqWake, granted, suspensions, idleElapsed>>
vars == <<dbVars, raceVars, reconVars, rateVars, colVars, tradeVars, fnVars, tfVars, acqVars>>

\* what the actions of each specification leave alone
outsideSave == <<raceVars, reconVars, rateVars, colVars, tradeVars, fnVars, tfVars, acqVars>>
outsideRace == <<reconVars, rateVars, colVars, tradeVars, fnVars, tfVars, acqVars>>
outsideRecon == <<dbVars, raceVars, rateVars, colVars, tradeVars, fnVars, tfVars, acqVars>>
outsideRate == <<dbVars, raceVars, reconVars, colVars, tradeVars, fnVars, tfVars, acqVars>>
outsideCollect == <<raceVars, reconVars, rateVars, tradeVars, fnVars, tfVars, acqVars>>
outsideTrade == <<raceVars, reconVars, rateVars, colVars, fnVars, tfVars, acqVars>>
outsideFn == <<dbVars, raceVars, reconVars, rateVars, colVars, tradeVars, tfVars, acqVars>>
outsideTransfer == <<dbVars, raceVars, reconVars, rateVars, colVars, tradeVars, fnVars, acqVars>>
outsideLimiter == <<dbVars, raceVars, reconVars, colVars, tradeVars, fnVars, tfVars>>

\* ------------------------------------------------------------------------
\* Records and payloads
\* ------------------------------------------------------------------------
TableNames == {"transfer", "trade", "balance"}
Runs == {1, 2}
NoRow == [pid |-> 0]
NoValue == "None"
Email == "user@example.com"

\* A raw amount the exchange sent that is not a number ("abc").
NonNumeric == -999
IsNumeric(a) == a # NonNumeric

\* Trading symbols as <<base, quote>> token pairs.
Stablecoins == {"USDT", "USDC", "BUSD"}
Symbols == {<<"BTC", "USDT">>, <<"ETH", "BTC">>}

\* symbol.replace("USDT", "").replace("USDC", "").replace("BUSD", "")
StripStable(symbol) == SelectSeq(symbol, LAMBDA tok : tok \notin Stablecoins)

\* "USDT" if "USDT" in symbol else "USDC" if "USDC" in symbol else "BUSD"
Contains(symbol, tok) == \E i \in 1..Len(symbol) : symbol[i] = tok
QuoteGuess(symbol) ==
    IF Contains(symbol, "USDT") THEN <<"USDT">>
    ELSE IF Contains(symbol, "USDC") THEN <<"USDC">> ELSE <<"BUSD">>

DepositPayloads ==
    [id : 1..MaxId, status : {0, 1}, insertTime : {1}, coin : {"BTC"},
     amount : 1..MaxAmount, address : {"addr"}, network : {"BTC"}, txId : {"0xabc"}]

TradePayloads ==
    [id : 1..MaxId, time : {1}, isBuyer : BOOLEAN, isMaker : {TRUE},
     qty : {1}, quoteQty : {2}, price : {2}, orderId : {7},
     commission : {0, 1}, commissionAsset : {"BNB"}]

SnapshotPayloads ==
    [updateTime : {1}, account_type : {"SPOT", "MARGIN"},
     balances : {<<[asset |-> "BTC", free |-> 1, locked |-> 0]>>,
                 <<[asset |-> "BTC", free |-> 1, locked |-> 1],
                   [asset |-> "ETH", free |-> 0, locked |-> 0]>>}]

\* SnapshotCollector._get_wallet_type
_get_wallet_type(account_type) ==
    IF account_type \in {"SPOT", "MARGIN", "FUTURES"} THEN account_type ELSE "SPOT"

\* SnapshotCollector._process_snapshot: one balance record per asset whose
\* free + locked is positive.
BalanceRecord(snapshot, balance_info, t) ==
    LET total_balance == balance_info.free + balance_info.locked
    IN [source |-> "binance_api", fid |-> 1,
        external_id |-> <<Email, snapshot.updateTime, balance_info.asset>>,
        date |-> snapshot.updateTime, email |-> Email,
        wallet |-> _get_wallet_type(snapshot.account_type),
        asset |-> balance_info.asset,
        raw_balance |-> total_balance, raw_loan |-> 0, raw_interest |-> 0,
        raw_unrealised_pnl |-> 0,
        cal_balance |-> total_balance, cal_loan |-> 0, cal_interest |-> 0,
        cal_unrealised_pnl |-> 0,
        matched |-> FALSE, variance |-> 0,
        created_at |-> t, updated_at |-> t]

RECURSIVE ProcessBalances(_, _, _)
ProcessBalances(snapshot, infos, t) ==
    IF infos = <<>> THEN <<>>
    ELSE (IF Head(infos).free + Head(infos).locked > 0
          THEN <<BalanceRecord(snapshot, Head(infos), t)>> ELSE <<>>)
         \o ProcessBalances(snapshot, Tail(infos), t)

\* a row for every entry of balances, whatever its total
ProcessSnapshotKeepsZero(snapshot, t) ==
    [i \in 1..Len(snapshot.balances) |-> BalanceRecord(snapshot, snapshot.balances[i], t)]

_process_snapshot(snapshot, t) == ProcessBalances(snapshot, snapshot.balances, t)

\* DepositCollector._process_deposit: the canonical transfer of a deposit, as
\* a sequence of zero or one record (None is the empty sequence).
_process_deposit(deposit, t) ==
    IF deposit.status # 1 THEN <<>>
    ELSE << [source |-> "binance_api", fid |-> 1,
             external_id |-> <<"deposit", deposit.id>>,
             datetime |-> deposit.insertTime,
             txn_type |-> "transfer_in", txn_subtype |-> "deposit",
             email |-> Email, wallet |-> "SPOT", asset |-> deposit.coin,
             amount |-> deposit.amount, counter_party |-> deposit.address,
             network |-> deposit.network, txn_hash |-> deposit.txId,
             match_id |-> NoValue, reconciled |-> FALSE,
             created_at |-> t, updated_at |-> t] >>

\* TradeCollector._process_trade: principal record and, when commission > 0,
\* the fee record.
TradeRecord(trade, symbol, t) ==
    [source |-> "binance_api", fid |-> 1,
     external_id |-> <<"trade", trade.id>>,
     datetime |-> trade.time, txn_type |-> "trade",
     txn_subtype |-> IF trade.isBuyer THEN "spot_buy" ELSE "spot_sell",
     email |-> Email, wallet |-> "SPOT", symbol |-> symbol,
     asset |-> IF trade.isBuyer THEN StripStable(symbol) ELSE QuoteGuess(symbol),
     amount |-> IF trade.isBuyer THEN trade.qty ELSE trade.quoteQty,
     price |-> trade.price, order_id |-> trade.orderId, trade_id |-> trade.id,
     match_id |-> NoValue, reconciled |-> FALSE,
     created_at |-> t, updated_at |-> t]

\* a fee record for every trade, whatever its commission
ProcessTradeAlwaysFee(trade, symbol, t) ==
    LET trade_record == TradeRecord(trade, symbol, t)
    IN <<trade_record, [trade_record EXCEPT !.external_id = <<"trade_fee", trade.id>>,
                                           !.txn_type = "txn_fee",
                                           !.txn_subtype = "taker_fee"]>>

_process_trade(trade, symbol, t) ==
    LET trade_record == TradeRecord(trade, symbol, t)
        fee_record == [trade_record EXCEPT
                          !.external_id = <<"trade_fee", trade.id>>,
                          !.txn_type = "txn_fee",
                          !.txn_subtype = IF trade.isMaker THEN "maker_fee" ELSE "taker_fee",
                          !.asset = <<trade.commissionAsset>>,
                          !.amount = trade.commission]
    IN IF trade.commission > 0 THEN <<trade_record, fee_record>> ELSE <<trade_record>>

\* ------------------------------------------------------------------------
\* Persistence store: query-then-insert/update saves
\* ------------------------------------------------------------------------
\* filter_by(...) of the three save methods
KeyOf(tbl, r) ==
    IF tbl = "balance" THEN <<r.email, r.date, r.wallet, r.asset>>
    ELSE <<r.source, r.external_id>>

Keys(tbl, rows) == {KeyOf(tbl, r) : r \in rows}

\* db.query(Model).filter_by(key).first()
Existing(rows, tbl, rec) ==
    LET m == {r \in rows : KeyOf(tbl, r) = KeyOf(tbl, rec)}
    IN IF m = {} THEN NoRow ELSE CHOOSE r \in m : \A q \in m : r.pid <= q.pid

\* for key, value in rec.items(): if key not in ["created_at"]: setattr(...)
UpdateRow(row, rec) ==
    [f \in DOMAIN row |-> IF f \in DOMAIN rec /\ f # "created_at" THEN rec[f] ELSE row[f]]

\* Model(**rec); db.add(...)
InsertRow(rec, pid) ==
    [f \in (DOMAIN rec) \cup {"pid"} |-> IF f = "pid" THEN pid ELSE rec[f]]

\* the "if existing: ... else: ..." body followed by db.commit()
Commit(rows, rec, existing, pid) ==
    IF existing # NoRow
    THEN {IF r.pid = existing.pid THEN UpdateRow(r, rec) ELSE r : r \in rows}
    ELSE rows \cup {InsertRow(rec, pid)}

\* the INSERT is rejected by the unique index of the migration
IntegrityError(rows, tbl, rec, existing, uniq) ==
    existing = NoRow /\ uniq /\ KeyOf(tbl, rec) \in Keys(tbl, rows)

\* a save that inserts without looking for an existing row
SaveAlwaysInsert(rows, rec, pid) == rows \cup {InsertRow(rec, pid)}

_save_transfer(rows, rec, pid) ==
    Commit(rows, rec, Existing(rows, "transfer", rec), pid)

_save_trade(rows, rec, pid) ==
    Commit(rows, rec, Existing(rows, "trade", rec), pid)

_save_balance(rows, rec, pid) ==
    Commit(rows, rec, Existing(rows, "balance", rec), pid)

\* saving a sequence of records one after the other
RECURSIVE SaveAll(_, _, _, _)
SaveAll(rows, tbl, recs, pid) ==
    IF recs = <<>> THEN rows
    ELSE SaveAll(IF tbl = "transfer" THEN _save_transfer(rows, Head(recs), pid)
                 ELSE IF tbl = "trade" THEN _save_trade(rows, Head(recs), pid)
                 ELSE _save_balance(rows, Head(recs), pid),
                 tbl, Tail(recs), pid + 1)

InitDB ==
    /\ tables = [t \in TableNames |-> {}]
    /\ nextPid = 1
    /\ uniqueIdx \in BOOLEAN
    /\ now = 0
    /\ lastSaved = <<>>

IdleRace ==
    /\ batch = <<>>
    /\ runPc = [r \in Runs |-> "done"]
    /\ runIdx = [r \in Runs |-> 0]
    /\ runExisting = [r \in Runs |-> NoRow]

\* DepositCollector.collect, one iteration of "for deposit in deposits":
\* process the deposit and save the record it yields.
IngestDeposit(deposit) ==
    /\ now < MaxSaves
    /\ LET recs == _process_deposit(deposit, now + 1)
       IN /\ tables' = [tables EXCEPT !["transfer"] = SaveAll(@, "transfer", recs, nextPid)]
          /\ nextPid' = nextPid + Len(recs)
          /\ lastSaved' = IF recs = <<>> THEN lastSaved ELSE <<"transfer", recs[Len(recs)]>>
    /\ now' = now + 1
    /\ UNCHANGED <<uniqueIdx, outsideSave>>

\* TradeCollector.collect, one iteration of "for trade in trades".
IngestTrade(trade, symbol) ==
    /\ now < MaxSaves
    /\ LET recs == _process_trade(trade, symbol, now + 1)
       IN /\ tables' = [tables EXCEPT !["trade"] = SaveAll(@, "trade", recs, nextPid)]
          /\ nextPid' = nextPid + Len(recs)
          /\ lastSaved' = <<"trade", recs[Len(recs)]>>
    /\ now' = now + 1
    /\ UNCHANGED <<uniqueIdx, outsideSave>>

\* SnapshotCollector.collect, one iteration of "for snapshot in snapshots".
IngestSnapshot(snapshot) ==
    /\ now < MaxSaves
    /\ LET recs == _process_snapshot(snapshot, now + 1)
       IN /\ tables' = [tables EXCEPT !["balance"] = SaveAll(@, "balance", recs, nextPid)]
          /\ nextPid' = nextPid + Len(recs)
          /\ lastSaved' = IF recs = <<>> THEN lastSaved ELSE <<"balance", recs[Len(recs)]>>
    /\ now' = now + 1
    /\ UNCHANGED <<uniqueIdx, outsideSave>>

NextSave ==
    \/ \E d \in DepositPayloads : IngestDeposit(d)
    \/ \E t \in TradePayloads, s \in Symbols : IngestTrade(t, s)
    \/ \E p \in SnapshotPayloads : IngestSnapshot(p)


\* ------------------------------------------------------------------------
\* C1
\* ------------------------------------------------------------------------
OneRowPerKey ==
    \A tbl \in TableNames :
        \A r1, r2 \in tables[tbl] : KeyOf(tbl, r1) = KeyOf(tbl, r2) => r1 = r2

\* the row of the latest saved record carries that record's fields
LastSavedInPlace ==
    lastSaved # <<>> =>
        LET tbl == lastSaved[1]
            rec == lastSaved[2]
        IN \E r \in tables[tbl] :
              /\ KeyOf(tbl, r) = KeyOf(tbl, rec)
              /\ \A f \in (DOMAIN rec) \ {"created_at"} : r[f] = rec[f]

\* a save of a key that is already stored keeps the rows' pids and
\* created_at values and the number of rows
SaveKeepsRows ==
    \A tbl \in TableNames :
        /\ \A r \in tables[tbl] :
              \E q \in tables'[tbl] :
                  q.pid = r.pid /\ KeyOf(tbl, q) = KeyOf(tbl, r) /\ q.created_at = r.created_at
        /\ Keys(tbl, tables'[tbl]) = Keys(tbl, tables[tbl])
              => Cardinality(tables'[tbl]) = Cardinality(tables[tbl])

\* C1: after any sequence of collector saves (the same payload ingested any
\* number of times included) each canonical table holds exactly one row per
\* (source, external_id); saving an existing key updates that row in place
\* and leaves the number of rows unchanged.
C1_IdempotentSave ==
    /\ [](OneRowPerKey /\ LastSavedInPlace)
    /\ [][SaveKeepsRows]_vars

\* a key saved at least twice with different field values
C1_Witness ==
    /\ lastSaved # <<>>
    /\ \E r \in tables[lastSaved[1]] :
          /\ KeyOf(lastSaved[1], r) = KeyOf(lastSaved[1], lastSaved[2])
          /\ r.created_at < r.updated_at
          /\ lastSaved[1] # "balance"
          /\ r.amount = lastSaved[2].amount

\* ------------------------------------------------------------------------
\* Two collector runs ingesting the same records concurrently
\* ------------------------------------------------------------------------
MaxBatch == 2      \* records in the batch both runs ingest

BatchItems ==
    UNION { {<<"transfer", _process_deposit(d, 1)[1]>> : d \in {x \in DepositPayloads : x.status = 1 /\ x.amount = 1}},
            {<<"balance", _process_snapshot(p, 1)[1]>> : p \in {x \in SnapshotPayloads : x.account_type = "SPOT"}} }

Batches == UNION { [1..n -> BatchItems] : n \in 1..MaxBatch }

StartRace ==
    /\ batch \in Batches
    /\ runPc = [r \in Runs |-> "query"]
    /\ runIdx = [r \in Runs |-> 1]
    /\ runExisting = [r \in Runs |-> NoRow]

\* first half of a save: existing = db.query(...).filter_by(key).first()
RunQuery(r) ==
    /\ runPc[r] = "query"
    /\ LET tbl == batch[runIdx[r]][1]
           rec == batch[runIdx[r]][2]
       IN runExisting' = [runExisting EXCEPT ![r] = Existing(tables[tbl], tbl, rec)]
    /\ runPc' = [runPc EXCEPT ![r] = "commit"]
    /\ UNCHANGED <<tables, nextPid, uniqueIdx, now, lastSaved, batch, runIdx, outsideRace>>

\* second half of a save: update or insert, then db.commit(); an insert the
\* unique index rejects raises out of collect
RunCommit(r) ==
    /\ runPc[r] = "commit"
    /\ LET tbl == batch[runIdx[r]][1]
           rec == batch[runIdx[r]][2]
       IN IF IntegrityError(tables[tbl], tbl, rec, runExisting[r], uniqueIdx)
          THEN /\ runPc' = [runPc EXCEPT ![r] = "raised"]
               /\ UNCHANGED <<tables, nextPid, lastSaved, runIdx>>
          ELSE /\ tables' = [tables EXCEPT ![tbl] = Commit(@, rec, runExisting[r], nextPid)]
               /\ nextPid' = IF runExisting[r] = NoRow THEN nextPid + 1 ELSE nextPid
               /\ lastSaved' = <<tbl, rec>>
               /\ runIdx' = [runIdx EXCEPT ![r] = @ + 1]
               /\ runPc' = [runPc EXCEPT ![r] = IF runIdx[r] = Len(batch) THEN "done" ELSE "query"]
    /\ runExisting' = [runExisting EXCEPT ![r] = NoRow]
    /\ UNCHANGED <<uniqueIdx, now, batch, outsideRace>>

NextRace ==
    \/ \E r \in Runs : RunQuery(r)
    \/ \E r \in Runs : RunCommit(r)

\* ------------------------------------------------------------------------
\* C2
\* ------------------------------------------------------------------------
\* C2: two runs ingesting the same records with interleaved
\* query-then-insert steps both complete normally and leave one row per key.
C2_ConcurrentRunsIdempotent ==
    /\ \A r \in Runs : runPc[r] # "raised"
    /\ OneRowPerKey

\* ------------------------------------------------------------------------
\* Reconciliation engine
\* ------------------------------------------------------------------------
Accounts == {"spot_main", "margin_main"}
Assets == {"BTC"}
EmptyDict == [k \in {} |-> 0]

\* tolerance = Decimal('0.00000001'), one unit
Tolerance == 1

DictGet(d, k, default) == IF k \in DOMAIN d THEN d[k] ELSE default
DictSet(d, k, v) == [x \in (DOMAIN d) \cup {k} |-> IF x = k THEN v ELSE d[x]]
Abs(x) == IF x < 0 THEN 0 - x ELSE x

\* what the abstract fetch methods may return
StartDicts == {EmptyDict} \cup {[x \in {"BTC"} |-> 10]}
ActualDicts == {EmptyDict} \cup {[x \in {"BTC"} |-> v] : v \in {12, 13, 14}}
SnapshotsT2 ==
    {[a \in A |-> IF a = "spot_main" THEN d ELSE [x \in {"BTC"} |-> 10]] :
        A \in SUBSET Accounts, d \in StartDicts}
SnapshotsT1 ==
    {[a \in A |-> IF a = "spot_main" THEN d ELSE [x \in {"BTC"} |-> 10]] :
        A \in SUBSET Accounts, d \in ActualDicts}

TxnKinds ==
    {<<"deposit", "">>, <<"withdrawal", "">>, <<"trade", "buy">>, <<"trade", "sell">>,
     <<"transfer_in", "">>, <<"transfer_out", "">>, <<"txn_fee", "">>}
TxnChoices ==
    {[account_id |-> "spot_main", type |-> k[1], side |-> k[2], asset |-> "BTC", amount |-> m] :
        k \in TxnKinds, m \in {3, 5}}
    \cup {[account_id |-> "spot_main", type |-> "deposit", side |-> "", asset |-> "BTC",
           amount |-> NonNumeric],
          [account_id |-> "margin_main", type |-> "deposit", side |-> "", asset |-> "BTC",
           amount |-> 5]}
TxnLists == UNION {[1..n -> TxnChoices] : n \in 0..MaxTxns}

\* one iteration of "for txn in transactions" of calculate_expected_position
ApplyTxn(position, txn) ==
    LET asset == txn.asset
        amount == txn.amount
        held == DictGet(position, asset, 0)
    IN IF txn.type = "deposit" THEN DictSet(position, asset, held + amount)
       ELSE IF txn.type = "withdrawal" THEN DictSet(position, asset, held - amount)
       ELSE IF txn.type = "trade"
            THEN (IF txn.side = "buy" THEN DictSet(position, asset, held + amount)
                  ELSE DictSet(position, asset, held - amount))
       ELSE position

RECURSIVE ApplyAll(_, _)
ApplyAll(position, txns) ==
    IF txns = <<>> THEN position ELSE ApplyAll(ApplyTxn(position, Head(txns)), Tail(txns))

\* Decimal(str(txn.get('amount', '0'))) raises on a non-numeric amount
RaisesInvalidOperation(txns) == \E i \in 1..Len(txns) : ~IsNumeric(txns[i].amount)

\* BinanceReconciliationService.calculate_expected_position
calculate_expected_position(starting_position, txns) ==
    LET position == ApplyAll(starting_position, txns)
    IN [k \in {x \in DOMAIN position : position[x] > 0} |-> position[k]]

\* account_txns = [t for t in transactions if t.get('account_id') == account_id]
AccountTxns(account_id) == SelectSeq(transactions, LAMBDA t : t.account_id = account_id)

\* the comparison with the boundary included
ExceedsOrMeetsTolerance(expected, actual) == Abs(expected - actual) >= Tolerance
\* abs(expected - actual) > tolerance
ExceedsTolerance(expected, actual) == Abs(expected - actual) > Tolerance

\* ReconciliationResult.add_discrepancy
add_discrepancy(account, asset, expected, actual) ==
    [account |-> account, asset |-> asset, expected |-> expected, actual |-> actual,
     difference |-> actual - expected]

StartRecon ==
    /\ recDay \in {1, 2, 3, 15}
    /\ recPc = "start"
    /\ positions_t2 = EmptyDict
    /\ positions_t1 = EmptyDict
    /\ transactions = <<>>
    /\ pending = {}
    /\ discrepancies = {}
    /\ reconciled_accounts = 0
    /\ failed_accounts = 0
    /\ outcome = EmptyDict
    /\ expectedOf = EmptyDict

IdleRecon ==
    /\ recDay = 15
    /\ recPc = "returned"
    /\ positions_t2 = EmptyDict
    /\ positions_t1 = EmptyDict
    /\ transactions = <<>>
    /\ pending = {}
    /\ discrepancies = {}
    /\ reconciled_accounts = 0
    /\ failed_accounts = 0
    /\ outcome = EmptyDict
    /\ expectedOf = EmptyDict

\* reconcile_daily up to the account loop: T-2 and T-1 by date.replace (which
\* raises ValueError for a day below 1, outside the try), then the three fetches
ReconcileStart ==
    /\ recPc = "start"
    /\ IF recDay - 2 < 1
       THEN /\ recPc' = "raised"
            /\ UNCHANGED <<positions_t2, positions_t1, transactions, pending>>
       ELSE /\ positions_t2' \in SnapshotsT2
            /\ positions_t1' \in SnapshotsT1
            /\ transactions' \in TxnLists
            /\ pending' = (DOMAIN positions_t2') \cup (DOMAIN positions_t1')
            /\ recPc' = "loop"
    /\ UNCHANGED <<recDay, discrepancies, reconciled_accounts, failed_accounts, outcome, expectedOf, outsideRecon>>

\* one iteration of "for account_id in all_accounts"
ReconcileAccount(account_id) ==
    /\ recPc = "loop"
    /\ account_id \in pending
    /\ pending' = pending \ {account_id}
    /\ LET start_pos == DictGet(positions_t2, account_id, EmptyDict)
           actual_pos == DictGet(positions_t1, account_id, EmptyDict)
           account_txns == AccountTxns(account_id)
       IN IF RaisesInvalidOperation(account_txns)
          THEN /\ failed_accounts' = failed_accounts + 1
               /\ outcome' = DictSet(outcome, account_id, "failed")
               /\ UNCHANGED <<discrepancies, reconciled_accounts, expectedOf>>
          ELSE LET expected_pos == calculate_expected_position(start_pos, account_txns)
                   all_assets == (DOMAIN expected_pos) \cup (DOMAIN actual_pos)
               IN /\ discrepancies' = discrepancies \cup
                        {add_discrepancy(account_id, asset,
                                         DictGet(expected_pos, asset, 0),
                                         DictGet(actual_pos, asset, 0)) :
                            asset \in {x \in all_assets :
                                          ExceedsTolerance(DictGet(expected_pos, x, 0),
                                                           DictGet(actual_pos, x, 0))}}
                  /\ reconciled_accounts' = reconciled_accounts + 1
                  /\ outcome' = DictSet(outcome, account_id, "reconciled")
                  /\ expectedOf' = DictSet(expectedOf, account_id, expected_pos)
                  /\ UNCHANGED failed_accounts
    /\ UNCHANGED <<recDay, recPc, positions_t2, positions_t1, transactions, outsideRecon>>

\* "return result"
ReconcileReturn ==
    /\ recPc = "loop"
    /\ pending = {}
    /\ recPc' = "returned"
    /\ UNCHANGED <<recDay, positions_t2, positions_t1, transactions, pending,
                   discrepancies, reconciled_accounts, failed_accounts, outcome, expectedOf,
                   outsideRecon>>

NextRecon ==
    \/ ReconcileStart
    \/ \E a \in Accounts : ReconcileAccount(a)
    \/ ReconcileReturn

\* ------------------------------------------------------------------------
\* C3
\* ------------------------------------------------------------------------
RECURSIVE SumOf(_, _, _)
SumOf(txns, asset, kinds) ==
    IF txns = <<>> THEN 0
    ELSE (IF Head(txns).asset = asset /\ <<Head(txns).type, Head(txns).side>> \in kinds
          THEN Head(txns).amount ELSE 0) + SumOf(Tail(txns), asset, kinds)

Inflows == {<<"deposit", "">>, <<"transfer_in", "">>, <<"trade", "buy">>}
Outflows == {<<"withdrawal", "">>, <<"transfer_out", "">>, <<"trade", "sell">>, <<"txn_fee", "">>}

ConservationExpected(account_id, asset) ==
    DictGet(DictGet(positions_t2, account_id, EmptyDict), asset, 0)
    + SumOf(AccountTxns(account_id), asset, Inflows)
    - SumOf(AccountTxns(account_id), asset, Outflows)

\* C3: for every asset the expected position is position(T-2) plus deposits,
\* transfer-ins and trade buys minus withdrawals, transfer-outs, trade sells
\* and fees.
C3_ExpectedPosition ==
    \A a \in DOMAIN expectedOf : \A asset \in Assets :
        DictGet(expectedOf[a], asset, 0) = ConservationExpected(a, asset)

\* ------------------------------------------------------------------------
\* C4
\* ------------------------------------------------------------------------
ExpectedAmount(a, asset) == DictGet(expectedOf[a], asset, 0)
ActualAmount(a, asset) == DictGet(DictGet(positions_t1, a, EmptyDict), asset, 0)

\* C4: for every account whose expected position was computed, an asset is
\* reported as a discrepancy exactly when |expected - actual| exceeds the
\* tolerance of 1e-8, and the record carries account, asset, expected, actual
\* and difference = actual - expected.
C4_DiscrepancyIffExceeds ==
    /\ \A a \in DOMAIN expectedOf : \A asset \in Assets :
          (\E d \in discrepancies : d.account = a /\ d.asset = asset)
             <=> (ExpectedAmount(a, asset) - ActualAmount(a, asset) > 1
                  \/ ActualAmount(a, asset) - ExpectedAmount(a, asset) > 1)
    /\ \A d \in discrepancies :
          /\ d.account \in DOMAIN expectedOf
          /\ d.expected = ExpectedAmount(d.account, d.asset)
          /\ d.actual = ActualAmount(d.account, d.asset)
          /\ d.difference = d.actual - d.expected

\* a finished run that reported expected 12 against actual 14
C4_Witness ==
    /\ recPc = "returned"
    /\ \E d \in discrepancies : d.expected = 12 /\ d.actual = 14 /\ d.difference = 2

\* ------------------------------------------------------------------------
\* C5
\* ------------------------------------------------------------------------
NoPositions(snapshot, a) == a \notin DOMAIN snapshot \/ DOMAIN snapshot[a] = {}

\* C5: an account without positions at T-2 or at T-1 is counted in
\* failed_accounts and not in reconciled_accounts.
C5_EmptySideIsFailed ==
    /\ \A a \in DOMAIN outcome :
          (NoPositions(positions_t2, a) \/ NoPositions(positions_t1, a))
              => outcome[a] = "failed"
    /\ failed_accounts = Cardinality({a \in DOMAIN outcome : outcome[a] = "failed"})
    /\ reconciled_accounts = Cardinality({a \in DOMAIN outcome : outcome[a] = "reconciled"})

\* ------------------------------------------------------------------------
\* Signed API client: request pacing
\* ------------------------------------------------------------------------
Clients == {1, 2}

\* RateLimiter.weight_limit, per minute
weight_limit == 3000
\* one minute in ticks of 20 ms
WindowTicks == 3000
\* the weight arguments the endpoint methods pass to _make_request
EndpointWeights == {1, 10, 2400, 3000}

\* time.sleep(weight * 0.02), in ticks
SleepTicks(weight) == weight

StartRate ==
    /\ clk = 0
    /\ cliPc = [c \in Clients |-> "idle"]
    /\ cliWake = [c \in Clients |-> 0]
    /\ cliWeight = [c \in Clients |-> 0]
    /\ issued = <<>>
    /\ weight_used = [c \in Clients |-> 0]
    /\ weight_window_start = [c \in Clients |-> 0]

IdleRate == StartRate

Sleeping == {c \in Clients : cliPc[c] = "sleeping"}

\* _make_request up to its time.sleep(weight * 0.02); the client's
\* rate_limiter is not consulted
MakeRequestSleep(c, weight) ==
    /\ cliPc[c] = "idle"
    /\ Len(issued) + Cardinality(Sleeping) < MaxRequests
    /\ cliPc' = [cliPc EXCEPT ![c] = "sleeping"]
    /\ cliWake' = [cliWake EXCEPT ![c] = clk + SleepTicks(weight)]
    /\ cliWeight' = [cliWeight EXCEPT ![c] = weight]
    /\ UNCHANGED <<clk, issued, weight_used, weight_window_start, outsideRate>>

\* _make_request after the sleep: self.session.request(...) goes out
MakeRequestSend(c) ==
    /\ cliPc[c] = "sleeping"
    /\ \A o \in Sleeping : cliWake[c] <= cliWake[o]
    /\ clk' = cliWake[c]
    /\ issued' = Append(issued, <<cliWake[c], cliWeight[c]>>)
    /\ cliPc' = [cliPc EXCEPT ![c] = "idle"]
    /\ UNCHANGED <<cliWake, cliWeight, weight_used, weight_window_start, outsideRate>>

\* the collectors work between requests while no request is pending
Elapse(ticks) ==
    /\ Sleeping = {}
    /\ issued # <<>>
    /\ Len(issued) < MaxRequests
    /\ clk - issued[Len(issued)][1] < WindowTicks
    /\ clk' = clk + ticks
    /\ UNCHANGED <<cliPc, cliWake, cliWeight, issued, weight_used, weight_window_start, outsideRate>>

NextRate ==
    \/ \E c \in Clients, w \in EndpointWeights : MakeRequestSleep(c, w)
    \/ \E c \in Clients : MakeRequestSend(c)
    \/ Elapse(WindowTicks)

\* ------------------------------------------------------------------------
\* C6
\* ------------------------------------------------------------------------
RECURSIVE WeightFrom(_, _)
\* total weight of the requests of reqs sent in [from, from + one minute)
WeightFrom(reqs, from) ==
    IF reqs = <<>> THEN 0
    ELSE (IF Head(reqs)[1] >= from /\ Head(reqs)[1] < from + WindowTicks
          THEN Head(reqs)[2] ELSE 0) + WeightFrom(Tail(reqs), from)

\* C6: the requests made with one account's credentials within any one-minute
\* window weigh at most the ceiling of 3000 in total.
C6_WindowWeightWithinLimit ==
    \A i \in 1..Len(issued) : WeightFrom(issued, issued[i][1]) <= weight_limit

\* ------------------------------------------------------------------------
\* Signed API client: error categories and time chunks
\* ------------------------------------------------------------------------
\* BinanceAPIClient._categorize_error; net stands for
\* "network" in error_msg.lower() or "timeout" in error_msg.lower()
_categorize_error(error_code, net) ==
    IF error_code \in {-2014, -2015, -1022} THEN "API_KEY_INVALID"
    ELSE IF error_code \in {-1003, -1015} THEN "RATE_LIMIT"
    ELSE IF error_code \in {-1100, -1101, -1102, -1103, -1104, -1105, -1106, -1111,
                            -1112, -1121, -1125, -1127, -1128} THEN "PARAMETER_ERROR"
    ELSE IF error_code = -1121 THEN "INVALID_SYMBOL"
    ELSE IF error_code \in {-2010, -1013} THEN "INSUFFICIENT_BALANCE"
    ELSE IF net THEN "NETWORK_ERROR"
    ELSE "UNKNOWN"

\* codes of error envelopes: those of the table and two outside it
ErrorCodes ==
    {-2014, -2015, -1022, -1003, -1015, -1100, -1101, -1102, -1103, -1104, -1105, -1106,
     -1111, -1112, -1121, -1125, -1127, -1128, -2010, -1013, 0, -9999}

\* error envelopes {code, msg} the exchange answers a request with
ErrorResponses ==
    {[code |-> c, net |-> FALSE] : c \in {-2015, -1003, -1121, -2010, 0}}
    \cup {[code |-> 0, net |-> TRUE]}

Min(a, b) == IF a < b THEN a ELSE b

\* BinanceAPIClient.chunk_time_range, with times and the chunk length in days
RECURSIVE chunk_time_range(_, _, _)
chunk_time_range(start_time, end_time, days) ==
    IF start_time < end_time
    THEN <<  <<start_time, Min(start_time + days, end_time)>>  >>
         \o chunk_time_range(Min(start_time + days, end_time), end_time, days)
    ELSE <<>>

\* ------------------------------------------------------------------------
\* Collector framework and the deposit, withdrawal and snapshot collectors
\* ------------------------------------------------------------------------
\* days=90 of _fetch_deposits and _fetch_withdrawals
ChunkDays == 90
\* account_types of _fetch_snapshots
SnapshotAccountTypes == <<"SPOT", "MARGIN", "FUTURES">>

DepositHistory ==
    [id : {0}, status : {0, 1}, insertTime : {10, 150}, coin : {"BTC"},
     amount : {1}, address : {"addr"}, network : {"BTC"}, txId : {"0xabc"}]
    \cup [id : {0}, status : {1}, insertTime : {10, 150}, coin : {"BTC"},
          amount : {NonNumeric}, address : {"addr"}, network : {"BTC"}, txId : {"0xabc"}]

WithdrawHistory ==
    [id : {0}, status : {1, 6}, applyTime : {10, 150}, coin : {"BTC"},
     amount : {1}, transactionFee : {0, 1}, address : {"addr"}, network : {"BTC"},
     txId : {"0xabc"}]
    \cup [id : {0}, status : {6}, applyTime : {10, 150}, coin : {"BTC"},
          amount : {NonNumeric}, transactionFee : {0}, address : {"addr"},
          network : {"BTC"}, txId : {"0xabc"}]

SnapshotHistory ==
    [updateTime : {10}, account_type : {"SPOT", "MARGIN"},
     balances : {<<[asset |-> "BTC", free |-> 1, locked |-> 1],
                   [asset |-> "ETH", free |-> 0, locked |-> 0]>>,
                 <<[asset |-> "BTC", free |-> NonNumeric, locked |-> 0]>>}]

TimeOf(kind, p) ==
    IF kind = "deposit" THEN p.insertTime
    ELSE IF kind = "withdraw" THEN p.applyTime ELSE p.updateTime

\* histories: payloads in chronological order, ids given by position
Histories(kind) ==
    LET base == IF kind = "deposit" THEN DepositHistory
                ELSE IF kind = "withdraw" THEN WithdrawHistory ELSE SnapshotHistory
        seqs == UNION {[1..n -> base] : n \in 0..MaxHistory}
        ordered == {h \in seqs : \A i \in 1..(Len(h) - 1) :
                                     TimeOf(kind, h[i]) <= TimeOf(kind, h[i + 1])}
    IN IF kind = "snapshot" THEN ordered
       ELSE {[i \in 1..Len(h) |-> [h[i] EXCEPT !.id = i]] : h \in ordered}

\* withdrawals promoted whatever their status
ProcessWithdrawalAnyStatus(withdrawal, t) ==
    << [source |-> "binance_api", fid |-> 1,
        external_id |-> <<"withdrawal", withdrawal.id>>,
        datetime |-> withdrawal.applyTime,
        txn_type |-> "transfer_out", txn_subtype |-> "withdraw",
        email |-> Email, wallet |-> "SPOT", asset |-> withdrawal.coin,
        amount |-> withdrawal.amount, counter_party |-> withdrawal.address,
        network |-> withdrawal.network, txn_hash |-> withdrawal.txId,
        match_id |-> NoValue, reconciled |-> FALSE,
        created_at |-> t, updated_at |-> t] >>

\* WithdrawCollector._process_withdrawal
_process_withdrawal(withdrawal, t) ==
    LET withdrawal_transfer ==
            [source |-> "binance_api", fid |-> 1,
             external_id |-> <<"withdrawal", withdrawal.id>>,
             datetime |-> withdrawal.applyTime,
             txn_type |-> "transfer_out", txn_subtype |-> "withdraw",
             email |-> Email, wallet |-> "SPOT", asset |-> withdrawal.coin,
             amount |-> withdrawal.amount, counter_party |-> withdrawal.address,
             network |-> withdrawal.network, txn_hash |-> withdrawal.txId,
             match_id |-> NoValue, reconciled |-> FALSE,
             created_at |-> t, updated_at |-> t]
        fee_transfer ==
            [withdrawal_transfer EXCEPT
                !.external_id = <<"withdrawal_fee", withdrawal.id>>,
                !.txn_type = "txn_fee", !.txn_subtype = "withdrawal_fee",
                !.amount = withdrawal.transactionFee, !.counter_party = "binance"]
    IN IF withdrawal.status # 6 THEN <<>>
       ELSE IF withdrawal.transactionFee > 0 THEN <<withdrawal_transfer, fee_transfer>>
       ELSE <<withdrawal_transfer>>

\* Decimal(...) of a non-numeric field raises decimal.InvalidOperation
ProcessRaises(kind, p) ==
    IF kind = "deposit" THEN p.status = 1 /\ ~IsNumeric(p.amount)
    ELSE IF kind = "withdraw"
         THEN p.status = 6 /\ (~IsNumeric(p.amount) \/ ~IsNumeric(p.transactionFee))
    ELSE \E i \in 1..Len(p.balances) :
            ~IsNumeric(p.balances[i].free) \/ ~IsNumeric(p.balances[i].locked)

Process(kind, p, t) ==
    IF kind = "deposit" THEN _process_deposit(p, t)
    ELSE IF kind = "withdraw" THEN _process_withdrawal(p, t)
    ELSE _process_snapshot(p, t)

TableOf(kind) == IF kind = "snapshot" THEN "balance" ELSE "transfer"

\* the units of work of the fetch: time chunks, or wallet types
Chunks == chunk_time_range(colStart, colEnd, ChunkDays)
NumUnits == IF colKind = "snapshot" THEN Len(SnapshotAccountTypes) ELSE Len(Chunks)

FirstN(seq, n) == SubSeq(seq, 1, Min(n, Len(seq)))

\* what the exchange answers the request of the current unit with: the
\* deposits / withdrawals of [chunk_start, chunk_end] up to limit (no offset
\* is sent), or the snapshots of the wallet type
ApiResponse ==
    IF colKind = "snapshot"
    THEN SelectSeq(history, LAMBDA p : /\ p.account_type = SnapshotAccountTypes[unitIdx]
                                       /\ p.updateTime >= colStart
                                       /\ p.updateTime <= colEnd)
    ELSE FirstN(SelectSeq(history, LAMBDA p : /\ TimeOf(colKind, p) >= Chunks[unitIdx][1]
                                              /\ TimeOf(colKind, p) <= Chunks[unitIdx][2]),
                PageLimit)

\* BaseCollector.log_error; during is the unit being fetched when it is called
log_error(errs, error_type, category, during) ==
    Append(errs, [type |-> error_type, error |-> category, during |-> during])

\* BaseCollector.handle_api_error: "retry" (True), "skip" (False), or "raise"
HandleVerdict(category) ==
    IF category = "RATE_LIMIT" THEN "retry"
    ELSE IF category = "API_KEY_INVALID" THEN "raise"
    ELSE "skip"

\* the entries handle_api_error appends to self.errors
HandleLog(errs, category, during) ==
    IF category = "RATE_LIMIT" THEN errs
    ELSE IF category = "INVALID_SYMBOL" THEN log_error(errs, "invalid_symbol", category, during)
    ELSE IF category = "API_KEY_INVALID" THEN log_error(errs, "api_key_invalid", category, during)
    ELSE log_error(errs, "api_error", category, during)

FetchErrorName == [deposit |-> "deposit_fetch_error", withdraw |-> "withdrawal_fetch_error",
                   snapshot |-> "snapshot_fetch_error"]

StartCollect ==
    /\ colKind \in {"deposit", "withdraw", "snapshot"}
    /\ colDb \in BOOLEAN
    /\ colStart = 1
    /\ colEnd \in {30, 120, 200}
    /\ history \in Histories(colKind)
    /\ unitIdx = 1
    /\ pageNo = 0
    /\ all_records = <<>>
    /\ errors = <<>>
    /\ requests = <<>>
    /\ skipped = {}
    /\ errBudget = MaxErrors
    /\ colPc = "fetch"
    /\ procIdx = 1
    /\ rawSaved = <<>>
    /\ saved = [records |-> 0, fees |-> 0]
    /\ results = NoValue
    /\ raisedBy = "none"

IdleCollect ==
    /\ colKind = "deposit"
    /\ colDb = TRUE
    /\ colStart = 1
    /\ colEnd = 30
    /\ history = <<>>
    /\ unitIdx = 1
    /\ pageNo = 0
    /\ all_records = <<>>
    /\ errors = <<>>
    /\ requests = <<>>
    /\ skipped = {}
    /\ errBudget = 0
    /\ colPc = "idle"
    /\ procIdx = 1
    /\ rawSaved = <<>>
    /\ saved = [records |-> 0, fees |-> 0]
    /\ results = NoValue
    /\ raisedBy = "none"

\* the for loop moves on to the next chunk / wallet type
NextUnit ==
    /\ unitIdx' = unitIdx + 1
    /\ pageNo' = 0
    /\ colPc' = IF unitIdx = NumUnits THEN "process" ELSE "fetch"

\* one request of _fetch_deposits / _fetch_withdrawals / _fetch_snapshots that
\* the exchange answers with data
FetchOk ==
    /\ colPc = "fetch"
    /\ pageNo < MaxPages
    /\ requests' = Append(requests, [unit |-> unitIdx, err |-> "none"])
    /\ all_records' = all_records \o ApiResponse
    /\ IF colKind # "snapshot" /\ Len(ApiResponse) >= PageLimit
       THEN \* a full page: "offset += 1000" and the same request again
            /\ pageNo' = pageNo + 1
            /\ UNCHANGED <<unitIdx, colPc>>
       ELSE NextUnit
    /\ UNCHANGED <<colKind, colDb, colStart, colEnd, history, errors, skipped, errBudget,
                   procIdx, rawSaved, saved, results, raisedBy, dbVars, outsideCollect>>

\* one request that fails with a BinanceAPIError, and the except clause of the
\* fetch loop
FetchError(e) ==
    /\ colPc = "fetch"
    /\ pageNo < MaxPages
    /\ errBudget > 0
    /\ errBudget' = errBudget - 1
    /\ LET category == _categorize_error(e.code, e.net)
       IN /\ requests' = Append(requests, [unit |-> unitIdx, err |-> category])
          /\ skipped' = skipped \cup {unitIdx}
          /\ IF colKind = "snapshot"
             THEN /\ errors' = log_error(errors, FetchErrorName[colKind], category, unitIdx)
                  /\ NextUnit
                  /\ UNCHANGED raisedBy
             ELSE /\ errors' =
                        IF HandleVerdict(category) = "skip"
                        THEN log_error(HandleLog(errors, category, unitIdx),
                                       FetchErrorName[colKind], category, unitIdx)
                        ELSE HandleLog(errors, category, unitIdx)
                  /\ IF HandleVerdict(category) = "raise"
                     THEN /\ colPc' = "raised"
                          /\ raisedBy' = "BinanceAPIError"
                          /\ UNCHANGED <<unitIdx, pageNo>>
                     ELSE \* "continue", or the end of the except clause
                          /\ NextUnit
                          /\ UNCHANGED raisedBy
    /\ UNCHANGED <<colKind, colDb, colStart, colEnd, history, all_records,
                   procIdx, rawSaved, saved, results, dbVars, outsideCollect>>

\* counted in deposits_saved, withdrawals_saved or balances_saved, not fees_saved
IsMainRecord(record) ==
    IF "txn_subtype" \in DOMAIN record THEN record.txn_subtype # "withdrawal_fee" ELSE TRUE

\* one iteration of collect's loop over the fetched records: archive the raw
\* payload, transform it, save the canonical records
ProcessRecord ==
    /\ colPc = "process"
    /\ procIdx <= Len(all_records)
    /\ LET p == all_records[procIdx]
           recs == Process(colKind, p, now)
           tbl == TableOf(colKind)
       IN /\ rawSaved' = IF colDb THEN Append(rawSaved, procIdx) ELSE rawSaved
          /\ IF ProcessRaises(colKind, p)
             THEN /\ colPc' = "raised"
                  /\ raisedBy' = "InvalidOperation"
                  /\ UNCHANGED <<procIdx, saved, tables, nextPid, lastSaved>>
             ELSE IF ~colDb /\ colKind # "snapshot" /\ recs # <<>>
             THEN \* db.query on None in _save_transfer
                  /\ colPc' = "raised"
                  /\ raisedBy' = "AttributeError"
                  /\ UNCHANGED <<procIdx, saved, tables, nextPid, lastSaved>>
             ELSE /\ procIdx' = procIdx + 1
                  /\ saved' = [records |-> saved.records + Len(SelectSeq(recs, IsMainRecord)),
                                fees |-> saved.fees + Len(SelectSeq(recs, LAMBDA r : ~IsMainRecord(r)))]
                  /\ IF colDb
                     THEN /\ tables' = [tables EXCEPT ![tbl] = SaveAll(@, tbl, recs, nextPid)]
                          /\ nextPid' = nextPid + Len(recs)
                          /\ lastSaved' = IF recs = <<>> THEN lastSaved
                                          ELSE <<tbl, recs[Len(recs)]>>
                     ELSE UNCHANGED <<tables, nextPid, lastSaved>>
                  /\ UNCHANGED <<colPc, raisedBy>>
    /\ UNCHANGED <<colKind, colDb, colStart, colEnd, history, unitIdx, pageNo, all_records,
                   errors, requests, skipped, errBudget, results, uniqueIdx, now,
                   outsideCollect>>

\* the end of collect: results["errors"] = self.errors; return results
CollectReturn ==
    /\ colPc = "process"
    /\ procIdx > Len(all_records)
    /\ results' = [collected |-> Len(all_records), saved |-> saved, errors |-> errors]
    /\ colPc' = "returned"
    /\ UNCHANGED <<colKind, colDb, colStart, colEnd, history, unitIdx, pageNo, all_records,
                   errors, requests, skipped, errBudget, procIdx, rawSaved, saved, raisedBy,
                   dbVars, outsideCollect>>

NextCollect ==
    \/ FetchOk
    \/ \E e \in ErrorResponses : FetchError(e)
    \/ ProcessRecord
    \/ CollectReturn

\* ------------------------------------------------------------------------
\* C7
\* ------------------------------------------------------------------------
\* C7: in a chunked fetch, the request after one that failed with RATE_LIMIT
\* is the same request again (same chunk), made once.
C7_RateLimitRetriesSameChunk ==
    (colKind \in {"deposit", "withdraw"} /\ colPc # "fetch") =>
        \A i \in 1..Len(requests) :
            (requests[i].err = "RATE_LIMIT"
             /\ (i = 1 \/ requests[i - 1].err # "RATE_LIMIT"
                 \/ requests[i - 1].unit # requests[i].unit))
            => /\ i < Len(requests)
               /\ requests[i + 1].unit = requests[i].unit
               /\ (requests[i + 1].err = "RATE_LIMIT"
                     => (i + 1 = Len(requests) \/ requests[i + 2].unit # requests[i].unit))

\* ------------------------------------------------------------------------
\* C8
\* ------------------------------------------------------------------------
\* C8: a request that fails with API_KEY_INVALID is logged and is the last
\* request of its run.
C8_ApiKeyInvalidAborts ==
    \A i \in 1..Len(requests) :
        requests[i].err = "API_KEY_INVALID" =>
            /\ i = Len(requests)
            /\ \E j \in 1..Len(errors) : errors[j].error = "API_KEY_INVALID"
            /\ colPc = "raised"

\* ------------------------------------------------------------------------
\* C9
\* ------------------------------------------------------------------------
\* C9: a malformed record does not abort collect; once the fetch is over every
\* fetched record is archived and processed and collect returns its counts.
C9_BadRecordDoesNotAbort ==
    /\ raisedBy # "InvalidOperation"
    /\ colPc = "returned" =>
          /\ results.collected = Len(all_records)
          /\ colDb => Len(rawSaved) = Len(all_records)

\* ------------------------------------------------------------------------
\* C10
\* ------------------------------------------------------------------------
\* C10: when a run returns, every unit whose fetch failed or was skipped has
\* an entry in the error list, and the result reports that list.
C10_SkippedUnitsLogged ==
    colPc = "returned" =>
        /\ results.errors = errors
        /\ \A u \in skipped : \E j \in 1..Len(errors) : errors[j].during = u

\* ------------------------------------------------------------------------
\* C12
\* ------------------------------------------------------------------------
\* the exchange holds a record in the range of chunk u
ChunkHasRecords(u) ==
    \E i \in 1..Len(history) : /\ TimeOf(colKind, history[i]) >= Chunks[u][1]
                               /\ TimeOf(colKind, history[i]) <= Chunks[u][2]
\* the records of chunk u were fetched and went through collect's loop
ChunkIngested(u) ==
    /\ colDb
    /\ u \notin skipped
    /\ \E i \in 1..Len(all_records) :
          /\ i < procIdx
          /\ TimeOf(colKind, all_records[i]) >= Chunks[u][1]
          /\ TimeOf(colKind, all_records[i]) <= Chunks[u][2]

\* C12: the chunks are requested in chronological order, and when a run
\* returns, no chunk was ingested after an earlier chunk holding records was
\* left out.
C12_IngestedChunksArePrefix ==
    colKind \in {"deposit", "withdraw"} =>
        /\ \A i \in 1..(Len(requests) - 1) : requests[i].unit <= requests[i + 1].unit
        /\ colPc = "returned" =>
              \A u \in 1..NumUnits : \A v \in 1..NumUnits :
                  (u < v /\ ChunkHasRecords(u) /\ ~ChunkIngested(u)) => ~ChunkIngested(v)

\* ------------------------------------------------------------------------
\* C13
\* ------------------------------------------------------------------------
Archived(i) == \E n \in 1..Len(rawSaved) : rawSaved[n] = i

\* C13: with a database session, the raw payload of a record is archived by
\* the time the record is transformed or saved, and once the run has ended,
\* normally or by a failure of a transformation, the raw payload of every
\* fetched record is archived.
C13_RawArchivedDespiteFailure ==
    colDb =>
        /\ \A i \in 1..Len(all_records) : i < procIdx => Archived(i)
        /\ raisedBy = "InvalidOperation" => Archived(procIdx)
        /\ (colPc = "returned" \/ raisedBy = "InvalidOperation")
              => \A i \in 1..Len(all_records) : Archived(i)

\* ------------------------------------------------------------------------
\* C20
\* ------------------------------------------------------------------------
\* the rows of the transfer table saved under an external id
RowsWithId(external_id) == {row \in tables["transfer"] : row.external_id = external_id}

\* C20: with a database session, a deposit that went through collect's loop
\* has a canonical row exactly when its status is 1, a withdrawal exactly when
\* its status is 6; a promoted withdrawal has exactly one txn_fee row, with its
\* txn_hash, network and asset, when its fee is > 0 and none when it is 0; and
\* deposits_saved <= deposits_collected, fees_saved <= withdrawals_saved <=
\* withdrawals_collected.
C20_StatusGatesPromotion ==
    /\ colKind = "deposit" /\ colDb =>
          \A i \in 1..Len(all_records) : i < procIdx =>
              (RowsWithId(<<"deposit", all_records[i].id>>) # {}
                  <=> all_records[i].status = 1)
    /\ colKind = "withdraw" /\ colDb =>
          \A i \in 1..Len(all_records) : i < procIdx =>
              LET w == all_records[i]
                  main == RowsWithId(<<"withdrawal", w.id>>)
                  fee == RowsWithId(<<"withdrawal_fee", w.id>>)
              IN /\ main # {} <=> w.status = 6
                 /\ fee # {} <=> (w.status = 6 /\ w.transactionFee > 0)
                 /\ Cardinality(main) <= 1 /\ Cardinality(fee) <= 1
                 /\ \A f \in fee : \A m \in main :
                       /\ f.txn_type = "txn_fee"
                       /\ f.amount = w.transactionFee
                       /\ f.txn_hash = m.txn_hash /\ f.network = m.network /\ f.asset = m.asset
                       /\ f.external_id # m.external_id
    /\ colKind \in {"deposit", "withdraw"} =>
          /\ saved.fees <= saved.records
          /\ saved.records <= Len(all_records)
          /\ colPc = "returned" => /\ results.saved = saved
                                   /\ results.collected = Len(all_records)

\* a returned withdrawal run that promoted one of two withdrawals, with its fee
C20_Witness ==
    /\ colKind = "withdraw"
    /\ colDb
    /\ colPc = "returned"
    /\ Len(all_records) = 2
    /\ saved = [records |-> 1, fees |-> 1]
    /\ \E row \in tables["transfer"] : row.txn_type = "txn_fee"

\* ------------------------------------------------------------------------
\* Trade collector: symbol discovery and the per-symbol fetch
\* ------------------------------------------------------------------------
TradeSymbols == Symbols \cup {<<"ETH", "USDT">>}
\* the collected range, in days; _fetch_trades_for_symbol chunks it with days=1
TradeStart == 1
TradeEnd == 3
TradeChunkDays == 1

GoodTrade(id, time) ==
    [id |-> id, time |-> time, isBuyer |-> TRUE, isMaker |-> TRUE, qty |-> 1,
     quoteQty |-> 2, price |-> 2, orderId |-> 7, commission |-> 1, commissionAsset |-> "BNB"]

\* what the exchange may hold for a symbol, by ascending trade id
TradeBooks(symbol) ==
    IF symbol = <<"BTC", "USDT">>
    THEN {<<>>, <<GoodTrade(1, 1)>>,
          <<[GoodTrade(1, 1) EXCEPT !.qty = NonNumeric], GoodTrade(2, 2)>>}
    ELSE IF symbol = <<"ETH", "BTC">> THEN {<<>>, <<GoodTrade(1, 1)>>}
    ELSE {<<GoodTrade(1, 1)>>, <<GoodTrade(1, 1), GoodTrade(2, 2)>>}

\* Decimal(str(...)) of qty, price, quoteQty or commission raises
TradeRaises(trade) ==
    \/ ~IsNumeric(trade.qty)
    \/ ~IsNumeric(trade.price)
    \/ ~trade.isBuyer /\ ~IsNumeric(trade.quoteQty)
    \/ ~IsNumeric(trade.commission)

\* the while loop of _fetch_trades_for_symbol over one chunk: pages of
\* get_my_trades(symbol, chunk_start, chunk_end, from_id, limit); from_id = 0
\* stands for None
RECURSIVE TradePages(_, _, _, _)
TradePages(book, chunk_start, chunk_end, from_id) ==
    LET trades == FirstN(SelectSeq(book, LAMBDA t : /\ t.time >= chunk_start
                                                    /\ t.time <= chunk_end
                                                    /\ (from_id = 0 \/ t.id >= from_id)),
                         PageLimit)
    IN IF trades = <<>> THEN <<>>
       ELSE IF Len(trades) < PageLimit THEN trades
       ELSE trades \o TradePages(book, chunk_start, chunk_end, trades[Len(trades)].id + 1)

RECURSIVE TradeChunksFetch(_, _)
TradeChunksFetch(book, time_chunks) ==
    IF time_chunks = <<>> THEN <<>>
    ELSE TradePages(book, Head(time_chunks)[1], Head(time_chunks)[2], 0)
         \o TradeChunksFetch(book, Tail(time_chunks))

\* TradeCollector._fetch_trades_for_symbol, when no request fails
_fetch_trades_for_symbol(symbol) ==
    TradeChunksFetch(tradeBook[symbol],
                     chunk_time_range(TradeStart, TradeEnd, TradeChunkDays))

\* any(stable in s for stable in ["USDT", "USDC", "BUSD"])
IsStablecoinSymbol(symbol) == \E stable \in Stablecoins : Contains(symbol, stable)

\* the orders a list built from a set may have
Orderings(S) ==
    {q \in [1..Cardinality(S) -> S] : \A i, j \in 1..Cardinality(S) : i # j => q[i] # q[j]}

\* step 4 of _discover_symbols: the lists "stablecoin_symbols + other_symbols"
\* may be, both built by iterating over the set symbols
StablecoinsFirst(symbols) ==
    LET stablecoin_symbols == {x \in symbols : IsStablecoinSymbol(x)}
        other_symbols == symbols \ stablecoin_symbols
    IN {a \o b : a \in Orderings(stablecoin_symbols), b \in Orderings(other_symbols)}

\* TradeCollector._discover_symbols: the lists it may return
_discover_symbols(db) ==
    IF ~db THEN {<<>>}
    ELSE StablecoinsFirst({x \in TradeSymbols : symbolCache[x] = "active"} \cup exchangePairs)

\* any(major in s for major in ['BTC', 'ETH', 'BNB'])
MajorAssets == {"BTC", "ETH", "BNB"}
IsMajorSymbol(symbol) == \E major \in MajorAssets : Contains(symbol, major)

\* steps 2 to 5 of EnhancedTradeCollector.discover_symbols_from_data: the
\* TRADING symbols of exchange_info on an asset of the user that are also a
\* pairing of a user asset with a quote asset or with another user asset
DiscoveredSymbols(all_assets, exchange_info) ==
    LET quote_assets == Stablecoins \cup MajorAssets
        valid_symbols == {x \in exchange_info : x[1] \in all_assets \/ x[2] \in all_assets}
        potential_symbols ==
            UNION {{<<asset, quote>>, <<quote, asset>>} :
                      asset \in all_assets \ quote_assets, quote \in quote_assets}
            \cup {p \in all_assets \X all_assets : p[1] # p[2]}
    IN valid_symbols \cap potential_symbols

\* step 6: stablecoin_symbols + major_symbols + other_symbols
discover_symbols_from_data(all_assets, exchange_info) ==
    LET discovered_symbols == DiscoveredSymbols(all_assets, exchange_info)
        stablecoin_symbols == {x \in discovered_symbols : IsStablecoinSymbol(x)}
        major_symbols == {x \in discovered_symbols \ stablecoin_symbols : IsMajorSymbol(x)}
        other_symbols == (discovered_symbols \ stablecoin_symbols) \ major_symbols
    IN {a \o b \o c : a \in Orderings(stablecoin_symbols), b \in Orderings(major_symbols),
                       c \in Orderings(other_symbols)}

\* index of the first trade whose processing raises, or Len + 1
RECURSIVE FirstRaising(_, _)
FirstRaising(trades, i) ==
    IF i > Len(trades) THEN i
    ELSE IF TradeRaises(trades[i]) THEN i ELSE FirstRaising(trades, i + 1)

\* the records of "for trade in trades: for record in _process_trade(...)"
RECURSIVE TradeRecords(_, _, _)
TradeRecords(trades, symbol, t) ==
    IF trades = <<>> THEN <<>>
    ELSE _process_trade(Head(trades), symbol, t) \o TradeRecords(Tail(trades), symbol, t)

IsPrincipal(record) == record.txn_subtype \in {"spot_buy", "spot_sell"}

ZeroCount == [symbols_discovered |-> 0, symbols_processed |-> 0, trades_collected |-> 0,
              trades_saved |-> 0, fees_saved |-> 0]

StartTrade ==
    /\ trDb \in BOOLEAN
    /\ symbolCache \in [TradeSymbols -> {"none", "active", "inactive"}]
    /\ exchangePairs \in {{}, {<<"ETH", "BTC">>, <<"ETH", "USDT">>}}
    /\ tradeBook \in {b \in [TradeSymbols -> UNION {TradeBooks(x) : x \in TradeSymbols}] :
                         \A x \in TradeSymbols : b[x] \in TradeBooks(x)}
    /\ trRun = 0
    /\ trSymbols = <<>>
    /\ trIdx = 1
    /\ trPc = "start"
    /\ trErrors = <<>>
    /\ trRequests = <<>>
    /\ trBudget = MaxTradeErrors
    /\ trRaw = <<>>
    /\ trCount = ZeroCount
    /\ trResults = NoValue

IdleTrade ==
    /\ trDb = TRUE
    /\ symbolCache = [x \in TradeSymbols |-> "none"]
    /\ exchangePairs = {}
    /\ tradeBook = [x \in TradeSymbols |-> <<>>]
    /\ trRun = 0
    /\ trSymbols = <<>>
    /\ trIdx = 1
    /\ trPc = "idle"
    /\ trErrors = <<>>
    /\ trRequests = <<>>
    /\ trBudget = 0
    /\ trRaw = <<>>
    /\ trCount = ZeroCount
    /\ trResults = NoValue

\* the start of TradeCollector.collect on a new collector: symbol discovery
TradeDiscover ==
    /\ trPc \in {"start", "returned"}
    /\ trRun < MaxRuns
    /\ trRun' = trRun + 1
    /\ trSymbols' \in _discover_symbols(trDb)
    /\ trIdx' = 1
    /\ trErrors' = <<>>
    /\ trCount' = [ZeroCount EXCEPT !.symbols_discovered = Len(trSymbols')]
    /\ trPc' = "fetch"
    /\ UNCHANGED <<trDb, symbolCache, exchangePairs, tradeBook, trRequests, trBudget, trRaw,
                   trResults, dbVars, outsideTrade>>

\* one iteration of "for symbol in symbols" whose requests all succeed
TradeFetchOk ==
    /\ trPc = "fetch"
    /\ trIdx <= Len(trSymbols)
    /\ LET symbol == trSymbols[trIdx]
           trades == _fetch_trades_for_symbol(symbol)
           k == FirstRaising(trades, 1)
           archived == SubSeq(trades, 1, Min(k, Len(trades)))
           records == TradeRecords(SubSeq(trades, 1, k - 1), symbol, now)
       IN /\ trRequests' = Append(trRequests, [run |-> trRun, symbol |-> symbol,
                                               code |-> 200, err |-> "none"])
          /\ symbolCache' = IF trades # <<>> /\ trDb
                            THEN [symbolCache EXCEPT ![symbol] = "active"]
                            ELSE symbolCache
          /\ trRaw' = IF trDb
                      THEN trRaw \o [i \in 1..Len(archived) |-> <<symbol, archived[i].id>>]
                      ELSE trRaw
          /\ IF trDb
             THEN /\ tables' = [tables EXCEPT !["trade"] = SaveAll(@, "trade", records, nextPid)]
                  /\ nextPid' = nextPid + Len(records)
                  /\ lastSaved' = IF records = <<>> THEN lastSaved
                                  ELSE <<"trade", records[Len(records)]>>
             ELSE UNCHANGED <<tables, nextPid, lastSaved>>
          /\ trCount' =
                IF trades = <<>> THEN trCount
                ELSE [trCount EXCEPT
                        !.symbols_processed = @ + 1,
                        !.trades_collected = @ + Len(trades),
                        !.trades_saved = @ + Len(SelectSeq(records, IsPrincipal)),
                        !.fees_saved = @ + Len(SelectSeq(records, LAMBDA r : ~IsPrincipal(r)))]
          /\ IF k <= Len(trades)
             THEN \* decimal.InvalidOperation is no BinanceAPIError: it leaves collect
                  /\ trPc' = "raised"
                  /\ UNCHANGED trIdx
             ELSE /\ trIdx' = trIdx + 1
                  /\ UNCHANGED trPc
    /\ UNCHANGED <<trDb, exchangePairs, tradeBook, trRun, trSymbols, trErrors, trBudget,
                   trResults, uniqueIdx, now, outsideTrade>>

\* one iteration of "for symbol in symbols" in which a request fails, and the
\* except clause of collect
TradeFetchError(e) ==
    /\ trPc = "fetch"
    /\ trIdx <= Len(trSymbols)
    /\ trBudget > 0
    /\ trBudget' = trBudget - 1
    /\ LET symbol == trSymbols[trIdx]
           category == _categorize_error(e.code, e.net)
       IN /\ trRequests' = Append(trRequests, [run |-> trRun, symbol |-> symbol,
                                               code |-> e.code, err |-> category])
          /\ IF category = "INVALID_SYMBOL"
             THEN \* _remove_invalid_symbol
                  /\ symbolCache' = IF trDb /\ symbolCache[symbol] # "none"
                                    THEN [symbolCache EXCEPT ![symbol] = "inactive"]
                                    ELSE symbolCache
                  /\ UNCHANGED trErrors
             ELSE /\ trErrors' = log_error(trErrors, <<"trade_fetch_error", symbol>>,
                                           category, trIdx)
                  /\ UNCHANGED symbolCache
    /\ trIdx' = trIdx + 1
    /\ UNCHANGED <<trDb, exchangePairs, tradeBook, trRun, trSymbols, trPc, trRaw, trCount,
                   trResults, dbVars, outsideTrade>>

\* the end of TradeCollector.collect
TradeReturn ==
    /\ trPc = "fetch"
    /\ trIdx > Len(trSymbols)
    /\ trResults' = [counts |-> trCount, errors |-> trErrors]
    /\ trPc' = "returned"
    /\ UNCHANGED <<trDb, symbolCache, exchangePairs, tradeBook, trRun, trSymbols, trIdx,
                   trErrors, trRequests, trBudget, trRaw, trCount, dbVars, outsideTrade>>

NextTrade ==
    \/ TradeDiscover
    \/ TradeFetchOk
    \/ \E e \in ErrorResponses : TradeFetchError(e)
    \/ TradeReturn

\* ------------------------------------------------------------------------
\* C11
\* ------------------------------------------------------------------------
\* C11: after the exchange answers a symbol's trade request with code -1121,
\* the symbol is inactive in the traded-symbol cache and no later run discovers
\* or fetches it, while the run's remaining symbols are still fetched.
C11_InvalidSymbolExcluded ==
    \A i \in 1..Len(trRequests) :
        trRequests[i].code = -1121 =>
            /\ symbolCache[trRequests[i].symbol] = "inactive"
            /\ \A j \in 1..Len(trRequests) :
                  trRequests[j].run > trRequests[i].run
                      => trRequests[j].symbol # trRequests[i].symbol
            /\ trRun > trRequests[i].run
                  => \A n \in 1..Len(trSymbols) : trSymbols[n] # trRequests[i].symbol
            /\ (trPc = "returned" /\ trRun = trRequests[i].run)
                  => \A n \in 1..Len(trSymbols) :
                        \E j \in 1..Len(trRequests) :
                            /\ trRequests[j].run = trRun
                            /\ trRequests[j].symbol = trSymbols[n]

\* ------------------------------------------------------------------------
\* Calls of single functions
\* ------------------------------------------------------------------------
IdleFn ==
    /\ fnCall = [fn |-> "none"]
    /\ fnPc = "idle"
    /\ fnOut = NoValue

\* the answers a request can get: data, an error envelope {code, msg}, an
\* exception of the HTTP library, or an error body that is no JSON object
Responses ==
    {[kind |-> "ok"], [kind |-> "ConnectionError"], [kind |-> "Timeout"],
     [kind |-> "RequestException"], [kind |-> "error_body_not_object"]}
    \cup [kind : {"error"}, code : ErrorCodes, net : BOOLEAN]

\* BinanceAPIClient._make_request: what it returns or raises for a response
_make_request(response) ==
    IF response.kind = "ok" THEN [kind |-> "return"]
    ELSE IF response.kind = "error"
         THEN [kind |-> "raise", exc |-> "BinanceAPIError",
               error_type |-> _categorize_error(response.code, response.net)]
    ELSE IF response.kind \in {"ConnectionError", "Timeout"}
         THEN [kind |-> "raise", exc |-> "BinanceAPIError", error_type |-> "NETWORK_ERROR"]
    ELSE IF response.kind = "RequestException"
         THEN [kind |-> "raise", exc |-> "BinanceAPIError", error_type |-> "UNKNOWN"]
    ELSE \* error_data.get on a body that is a list or a string
         [kind |-> "raise", exc |-> "AttributeError", error_type |-> NoValue]

\* BinanceAPIClient.validate_api_permissions, given the answer to its probe
validate_api_permissions(response) ==
    LET probe == _make_request(response)
    IN IF probe.kind = "return" THEN [kind |-> "return", value |-> TRUE]
       ELSE IF probe.exc = "BinanceAPIError"
            THEN IF probe.error_type = "API_KEY_INVALID"
                 THEN [kind |-> "return", value |-> FALSE]
                 ELSE probe
       ELSE [kind |-> "return", value |-> FALSE]

\* greatest common divisor of two naturals, not both 0
RECURSIVE Gcd(_, _)
Gcd(a, b) == IF b = 0 THEN a ELSE Gcd(b, a % b)

\* the Decimal quotient a / b for b > 0, as the fraction <<numerator, denominator>>
\* in lowest terms (the rounding to 28 significant digits is left out)
Quotient(a, b) == <<a \div Gcd(a, b), b \div Gcd(a, b)>>

\* the price computed as from_amount / to_amount
ProcessConvertInvertedPrice(convert, t) ==
    LET price == IF convert.toAmount > 0
                 THEN Quotient(convert.fromAmount, convert.toAmount) ELSE <<0, 1>>
        sell_record ==
            [source |-> "binance_api", fid |-> 1,
             external_id |-> <<"convert_sell", convert.orderId>>,
             datetime |-> convert.createTime,
             txn_type |-> "trade", txn_subtype |-> "convert_sell",
             email |-> Email, wallet |-> "SPOT",
             symbol |-> <<convert.fromAsset, convert.toAsset>>,
             asset |-> convert.fromAsset, amount |-> 0 - convert.fromAmount,
             price |-> price, order_id |-> convert.orderId, trade_id |-> convert.orderId,
             match_id |-> NoValue, reconciled |-> FALSE,
             created_at |-> t, updated_at |-> t]
    IN <<sell_record,
         [sell_record EXCEPT !.external_id = <<"convert_buy", convert.orderId>>,
                             !.txn_subtype = "convert_buy",
                             !.asset = convert.toAsset,
                             !.amount = convert.toAmount]>>

\* ConvertCollector._process_convert
_process_convert(convert, t) ==
    LET order_id == convert.orderId
        from_amount == convert.fromAmount
        to_amount == convert.toAmount
        price == IF from_amount > 0 THEN Quotient(to_amount, from_amount) ELSE <<0, 1>>
        sell_record ==
            [source |-> "binance_api", fid |-> 1,
             external_id |-> <<"convert_sell", order_id>>,
             datetime |-> convert.createTime,
             txn_type |-> "trade", txn_subtype |-> "convert_sell",
             email |-> Email, wallet |-> "SPOT",
             symbol |-> <<convert.fromAsset, convert.toAsset>>,
             asset |-> convert.fromAsset, amount |-> 0 - from_amount, price |-> price,
             order_id |-> order_id, trade_id |-> order_id,
             match_id |-> NoValue, reconciled |-> FALSE,
             created_at |-> t, updated_at |-> t]
        buy_record ==
            [sell_record EXCEPT !.external_id = <<"convert_buy", order_id>>,
                                !.txn_subtype = "convert_buy",
                                !.asset = convert.toAsset,
                                !.amount = to_amount]
    IN <<sell_record, buy_record>>

ConvertInputs ==
    [orderId : 1..MaxId, createTime : {1}, fromAsset : {"ETH"}, toAsset : {"USDT"},
     fromAmount : {0, 2, 3}, toAmount : {0, 1, 6000}]
ProcessConvertCalls == [fn : {"_process_convert"}, convert : ConvertInputs]

ChunkCalls ==
    [fn : {"chunk_time_range"}, start_time : 0..2, end_time : 0..MaxDay, days : 1..MaxChunkDays]
CategorizeCalls == [fn : {"_categorize_error"}, code : ErrorCodes, net : BOOLEAN]
ValidateCalls == [fn : {"validate_api_permissions"}, response : Responses]

TradeInputs ==
    [id : 1..MaxId, time : {1}, isBuyer : BOOLEAN, isMaker : BOOLEAN,
     qty : {1}, quoteQty : {2}, price : {2}, orderId : {7},
     commission : {0, 1}, commissionAsset : {"BNB"}]
ProcessTradeCalls == [fn : {"_process_trade"}, trade : TradeInputs, symbol : TradeSymbols]

\* snapshots of the three wallet types: up to two assets, each listed once,
\* with free and locked amounts of 0 or more
BalanceInfos(asset) == [asset : {asset}, free : 0..1, locked : 0..1]

SnapshotBalances ==
    {<<>>} \cup {<<b>> : b \in BalanceInfos("BTC")}
    \cup {<<b, e>> : b \in BalanceInfos("BTC"), e \in BalanceInfos("ETH")}
    \cup {<<e, b>> : b \in BalanceInfos("BTC"), e \in BalanceInfos("ETH")}

SnapshotInputs ==
    [updateTime : {1}, account_type : {"SPOT", "MARGIN", "FUTURES"},
     balances : SnapshotBalances]

ProcessSnapshotCalls == [fn : {"_process_snapshot"}, snapshot : SnapshotInputs]

\* what the exchange holds for a paginated endpoint: records with ascending
\* ids and times in the collected range
PageBooks ==
    LET times == UNION {[1..n -> TradeStart..TradeEnd] : n \in 0..MaxBook}
    IN {[i \in 1..Len(tm) |-> GoodTrade(i, tm[i])] :
           tm \in {t \in times : \A i \in 1..(Len(t) - 1) : t[i] <= t[i + 1]}}

\* endpoint_func(startTime, endTime, limit, fromId): the first limit records
\* of the range whose id is at least fromId (from_id = 0 stands for None)
EndpointPage(book, start_time, end_time, limit, from_id) ==
    FirstN(SelectSeq(book, LAMBDA r : /\ r.time >= start_time
                                      /\ r.time <= end_time
                                      /\ (from_id = 0 \/ r.id >= from_id)),
           limit)

\* the while loop of paginate_request, followed for at most left iterations
RECURSIVE PaginateLoop(_, _, _, _, _, _)
PaginateLoop(book, start_time, end_time, limit_per_page, from_id, left) ==
    LET page == EndpointPage(book, start_time, end_time, limit_per_page, from_id)
    IN IF left = 0 THEN [all_results |-> <<>>, ended |-> FALSE]
       ELSE IF page = <<>> THEN [all_results |-> <<>>, ended |-> TRUE]
       ELSE IF Len(page) < limit_per_page THEN [all_results |-> page, ended |-> TRUE]
       ELSE LET rest == PaginateLoop(book, start_time, end_time, limit_per_page,
                                     page[Len(page)].id, left - 1)
            IN [all_results |-> page \o rest.all_results, ended |-> rest.ended]

\* BinanceAPIClient.paginate_request on an endpoint whose records carry "id"
paginate_request(book, start_time, end_time, limit_per_page) ==
    PaginateLoop(book, start_time, end_time, limit_per_page, 0, MaxIterations)

PaginateCalls ==
    [fn : {"paginate_request"}, book : PageBooks, start_time : {TradeStart},
     end_time : {TradeEnd}, limit_per_page : 1..PageLimit]

FetchTradesCalls == [fn : {"_fetch_trades_for_symbol"}, book : PageBooks]

\* symbol discovery: the assets seen in the account's data, the TRADING
\* symbols of the exchange directory, the active entries of the symbol cache
DiscoveryAssets == {"BTC", "ETH", "TRY", "DOGE"}
DiscoveryDirectory ==
    {<<"BTC", "USDT">>, <<"ETH", "BTC">>, <<"USDT", "TRY">>, <<"DOGE", "TRY">>}

DiscoverFromDataCalls ==
    [fn : {"discover_symbols_from_data"}, all_assets : SUBSET DiscoveryAssets,
     exchange_info : SUBSET DiscoveryDirectory]

DiscoverCalls ==
    [fn : {"_discover_symbols"}, cached : SUBSET {<<"BTC", "USDT">>, <<"DOGE", "TRY">>},
     trading_pairs : SUBSET {<<"ETH", "BTC">>, <<"DOGE", "TRY">>}]

FnCalls ==
    PaginateCalls \cup FetchTradesCalls \cup DiscoverFromDataCalls \cup DiscoverCalls \cup ChunkCalls \cup CategorizeCalls \cup ValidateCalls \cup ProcessTradeCalls
    \cup ProcessConvertCalls \cup ProcessSnapshotCalls

StartFn ==
    /\ fnCall \in FnCalls
    /\ fnPc = "called"
    /\ fnOut = NoValue

CallChunkTimeRange ==
    /\ fnPc = "called"
    /\ fnCall.fn = "chunk_time_range"
    /\ fnOut' = chunk_time_range(fnCall.start_time, fnCall.end_time, fnCall.days)
    /\ fnPc' = "returned"
    /\ UNCHANGED <<fnCall, outsideFn>>

CallCategorizeError ==
    /\ fnPc = "called"
    /\ fnCall.fn = "_categorize_error"
    /\ fnOut' = _categorize_error(fnCall.code, fnCall.net)
    /\ fnPc' = "returned"
    /\ UNCHANGED <<fnCall, outsideFn>>

CallValidatePermissions ==
    /\ fnPc = "called"
    /\ fnCall.fn = "validate_api_permissions"
    /\ LET out == validate_api_permissions(fnCall.response)
       IN /\ fnOut' = out
          /\ fnPc' = IF out.kind = "raise" THEN "raised" ELSE "returned"
    /\ UNCHANGED <<fnCall, outsideFn>>

CallProcessTrade ==
    /\ fnPc = "called"
    /\ fnCall.fn = "_process_trade"
    /\ fnOut' = _process_trade(fnCall.trade, fnCall.symbol, now)
    /\ fnPc' = "returned"
    /\ UNCHANGED <<fnCall, outsideFn>>

CallProcessConvert ==
    /\ fnPc = "called"
    /\ fnCall.fn = "_process_convert"
    /\ fnOut' = _process_convert(fnCall.convert, now)
    /\ fnPc' = "returned"
    /\ UNCHANGED <<fnCall, outsideFn>>

CallProcessSnapshot ==
    /\ fnPc = "called"
    /\ fnCall.fn = "_process_snapshot"
    /\ fnOut' = _process_snapshot(fnCall.snapshot, now)
    /\ fnPc' = "returned"
    /\ UNCHANGED <<fnCall, outsideFn>>

\* _discover_symbols on a session whose cache and directory queries return
\* cached and trading_pairs
CallDiscoverSymbols ==
    /\ fnPc = "called"
    /\ fnCall.fn = "_discover_symbols"
    /\ fnOut' \in StablecoinsFirst(fnCall.cached \cup fnCall.trading_pairs)
    /\ fnPc' = "returned"
    /\ UNCHANGED <<fnCall, outsideFn>>

CallDiscoverFromData ==
    /\ fnPc = "called"
    /\ fnCall.fn = "discover_symbols_from_data"
    /\ fnOut' \in discover_symbols_from_data(fnCall.all_assets, fnCall.exchange_info)
    /\ fnPc' = "returned"
    /\ UNCHANGED <<fnCall, outsideFn>>

\* paginate_request; "looping" when its while loop has not ended after
\* MaxIterations requests
CallPaginateRequest ==
    /\ fnPc = "called"
    /\ fnCall.fn = "paginate_request"
    /\ LET out == paginate_request(fnCall.book, fnCall.start_time, fnCall.end_time,
                                   fnCall.limit_per_page)
       IN /\ fnOut' = out.all_results
          /\ fnPc' = IF out.ended THEN "returned" ELSE "looping"
    /\ UNCHANGED <<fnCall, outsideFn>>

\* _fetch_trades_for_symbol over [TradeStart, TradeEnd] when no request fails
CallFetchTrades ==
    /\ fnPc = "called"
    /\ fnCall.fn = "_fetch_trades_for_symbol"
    /\ fnOut' = TradeChunksFetch(fnCall.book,
                                 chunk_time_range(TradeStart, TradeEnd, TradeChunkDays))
    /\ fnPc' = "returned"
    /\ UNCHANGED <<fnCall, outsideFn>>

NextFn ==
    \/ CallPaginateRequest
    \/ CallFetchTrades
    \/ CallDiscoverSymbols
    \/ CallDiscoverFromData
    \/ CallChunkTimeRange
    \/ CallCategorizeError
    \/ CallValidatePermissions
    \/ CallProcessTrade
    \/ CallProcessConvert
    \/ CallProcessSnapshot

Returned(fn) == fnPc = "returned" /\ fnCall.fn = fn

\* ------------------------------------------------------------------------
\* C14
\* ------------------------------------------------------------------------
\* instant t lies in the sub-range, both ends included as in the startTime and
\* endTime of the requests made with it
InChunk(t, chunk) == chunk[1] <= t /\ t <= chunk[2]

ParameterCodes == {-1100, -1101, -1102, -1103, -1104, -1105, -1106, -1111, -1112,
                   -1125, -1127, -1128}
Categories == {"API_KEY_INVALID", "RATE_LIMIT", "INVALID_SYMBOL", "INSUFFICIENT_BALANCE",
               "PARAMETER_ERROR", "NETWORK_ERROR", "UNKNOWN"}

\* the table of the claim
TableCategory(code, net) ==
    IF code \in {-2014, -2015, -1022} THEN "API_KEY_INVALID"
    ELSE IF code \in {-1003, -1015} THEN "RATE_LIMIT"
    ELSE IF code = -1121 THEN "INVALID_SYMBOL"
    ELSE IF code \in {-2010, -1013} THEN "INSUFFICIENT_BALANCE"
    ELSE IF code \in ParameterCodes THEN "PARAMETER_ERROR"
    ELSE IF net THEN "NETWORK_ERROR"
    ELSE "UNKNOWN"

\* C15: _categorize_error follows the table, -1121 giving INVALID_SYMBOL, and
\* each of the seven categories is the category of some input.
C15_CategoryTable ==
    Returned("_categorize_error") =>
        /\ fnOut = TableCategory(fnCall.code, fnCall.net)
        /\ \A cat \in Categories :
              \E code \in ErrorCodes : \E net \in BOOLEAN : _categorize_error(code, net) = cat

\* ------------------------------------------------------------------------
\* C16
\* ------------------------------------------------------------------------
\* the probe call failed with a BinanceAPIError of category API_KEY_INVALID
ProbeKeyInvalid(response) ==
    LET probe == _make_request(response)
    IN probe.kind = "raise" /\ probe.exc = "BinanceAPIError"
       /\ probe.error_type = "API_KEY_INVALID"

\* C16: validate_api_permissions returns True when the probe succeeds, False
\* exactly when the probe fails with API_KEY_INVALID, and raises for every
\* other failure of the probe.
C16_FalseIffKeyInvalid ==
    fnCall.fn = "validate_api_permissions" /\ fnPc # "called" =>
        /\ fnCall.response.kind = "ok" => (fnPc = "returned" /\ fnOut.value = TRUE)
        /\ ProbeKeyInvalid(fnCall.response) => (fnPc = "returned" /\ fnOut.value = FALSE)
        /\ (fnCall.response.kind # "ok" /\ ~ProbeKeyInvalid(fnCall.response))
              => fnPc = "raised"

\* ------------------------------------------------------------------------
\* C17
\* ------------------------------------------------------------------------
\* C17: _process_trade returns one principal record, followed by one fee
\* record exactly when commission > 0; the fee is maker_fee when isMaker and
\* taker_fee otherwise; the external ids are trade_<id> and trade_fee_<id>.
C17_PrincipalAndFee ==
    Returned("_process_trade") =>
        /\ Len(fnOut) = (IF fnCall.trade.commission > 0 THEN 2 ELSE 1)
        /\ fnOut[1].txn_type = "trade"
        /\ fnOut[1].txn_subtype \in {"spot_buy", "spot_sell"}
        /\ fnOut[1].external_id = <<"trade", fnCall.trade.id>>
        /\ Len(fnOut) = 2 =>
              /\ fnOut[2].txn_type = "txn_fee"
              /\ fnOut[2].txn_subtype =
                    (IF fnCall.trade.isMaker THEN "maker_fee" ELSE "taker_fee")
              /\ fnOut[2].external_id = <<"trade_fee", fnCall.trade.id>>
              /\ fnOut[2].external_id # fnOut[1].external_id
              /\ fnOut[2].amount = fnCall.trade.commission

\* a maker trade with a commission was processed
C17_Witness ==
    /\ Returned("_process_trade")
    /\ fnCall.trade.commission > 0
    /\ fnCall.trade.isMaker
    /\ Len(fnOut) = 2
    /\ fnOut[2].txn_subtype = "maker_fee"

\* ------------------------------------------------------------------------
\* C18
\* ------------------------------------------------------------------------
\* C18: the principal record of a buy carries the base asset of the symbol
\* with amount qty, that of a sell the quote asset with amount quoteQty.
C18_PrincipalAsset ==
    Returned("_process_trade") =>
        IF fnCall.trade.isBuyer
        THEN fnOut[1].asset = <<fnCall.symbol[1]>> /\ fnOut[1].amount = fnCall.trade.qty
        ELSE fnOut[1].asset = <<fnCall.symbol[2]>> /\ fnOut[1].amount = fnCall.trade.quoteQty

\* ------------------------------------------------------------------------
\* C19
\* ------------------------------------------------------------------------
\* the price p is the quotient to / from, or 0 when from is 0
IsPrice(p, to, from) ==
    IF from = 0 THEN p = <<0, 1>> ELSE p[2] > 0 /\ p[1] * from = to * p[2]

\* what the two records of a convert event are, given the amount of the sell
ConvertRecordsAre(out, c, sell_amount) ==
    /\ Len(out) = 2
    /\ \A i \in 1..2 : out[i].txn_type = "trade" /\ IsPrice(out[i].price, c.toAmount, c.fromAmount)
    /\ out[1].txn_subtype = "convert_sell"
    /\ out[1].asset = c.fromAsset
    /\ out[1].amount = sell_amount
    /\ out[1].external_id = <<"convert_sell", c.orderId>>
    /\ out[2].txn_subtype = "convert_buy"
    /\ out[2].asset = c.toAsset
    /\ out[2].amount = c.toAmount
    /\ out[2].external_id = <<"convert_buy", c.orderId>>
    /\ (c.fromAmount = 2 /\ c.toAmount = 6000) => \A i \in 1..2 : out[i].price = <<3000, 1>>

\* C19: _process_convert returns exactly two trade records, a convert_sell of
\* fromAsset with amount fromAmount and a convert_buy of toAsset with amount
\* toAmount, with external ids convert_sell_<orderId> and convert_buy_<orderId>,
\* both with price toAmount / fromAmount, or 0 when fromAmount is 0; 2 ETH to
\* 6000 USDT gives price 3000.
C19_ConvertTwoRecords ==
    Returned("_process_convert") =>
        ConvertRecordsAre(fnOut, fnCall.convert, fnCall.convert.fromAmount)

\* C19, with the sign the sell record carries: the same two records, the
\* convert_sell with amount -fromAmount.
C19_ConvertSellNegated ==
    Returned("_process_convert") =>
        ConvertRecordsAre(fnOut, fnCall.convert, 0 - fnCall.convert.fromAmount)

\* 2 ETH converted to 6000 USDT
C19_Witness ==
    /\ Returned("_process_convert")
    /\ fnCall.convert.fromAmount = 2
    /\ fnCall.convert.toAmount = 6000
    /\ fnOut[1].amount = -2
    /\ fnOut[2].price = <<3000, 1>>

\* ------------------------------------------------------------------------
\* One run of the transfer collector
\* ------------------------------------------------------------------------
SubFlows == {"main_spot", "sub_account", "wallet_to_wallet"}

\* rows of /asset/transfer, /sub-account/sub/transfer/history and
\* /asset/transfer/universal
MainTransferPayloads ==
    [tranId : 1..MaxId, type : {"MAIN_MARGIN"}, asset : {"BTC"},
     amount : {1, NonNumeric}, timestamp : {1}]

SubTransferPayloads ==
    [tranId : {1}, fromEmail : {Email, "sub@example.com"}, toEmail : {"other@example.com"},
     asset : {"BTC"}, qty : {1, NonNumeric}, time : {1}]

WalletTransferPayloads ==
    [tranId : {1}, fromAccountType : {"SPOT", "FUNDING"}, toAccountType : {"MARGIN"},
     asset : {"BTC"}, amount : {1, NonNumeric}, timestamp : {1}]

TransferPayloads(flow) ==
    IF flow = "main_spot" THEN MainTransferPayloads
    ELSE IF flow = "sub_account" THEN SubTransferPayloads
    ELSE WalletTransferPayloads

\* how the requests of one sub-flow end: the rows received before any
\* failure, and the category of the BinanceAPIError that ended them
TransferFailures ==
    {"none"} \cup {_categorize_error(e.code, e.net) :
                      e \in {[code |-> -2015, net |-> FALSE], [code |-> -1003, net |-> FALSE],
                             [code |-> 0, net |-> TRUE]}}

TransferAnswers(flow) ==
    [rows : {<<>>} \cup {<<p>> : p \in TransferPayloads(flow)}, failure : TransferFailures]

TransferBase(prefix, transfer, time, txn_type, subtype, amount, counter_party, t) ==
    [source |-> "binance_api", fid |-> 1,
     external_id |-> <<prefix, transfer.tranId>>,
     datetime |-> time, txn_type |-> txn_type, txn_subtype |-> subtype,
     email |-> Email, wallet |-> "SPOT", asset |-> transfer.asset,
     amount |-> amount, counter_party |-> counter_party,
     network |-> NoValue, txn_hash |-> NoValue,
     match_id |-> NoValue, reconciled |-> FALSE,
     created_at |-> t, updated_at |-> t]

\* "MAIN_" in transfer_type
HasMainPrefix(transfer_type) ==
    transfer_type \in {"MAIN_UMFUTURE", "MAIN_CMFUTURE", "MAIN_MARGIN", "MAIN_FUNDING"}

_process_main_transfer(transfer, t) ==
    TransferBase("main_transfer", transfer, transfer.timestamp,
                 IF HasMainPrefix(transfer.type) THEN "transfer_out" ELSE "transfer_in",
                 "transfer_between_account_main_spot", transfer.amount, transfer.type, t)

_process_sub_transfer(transfer, t) ==
    TransferBase("sub_transfer", transfer, transfer.time,
                 IF transfer.fromEmail = Email THEN "transfer_out" ELSE "transfer_in",
                 "transfer_between_account_sub", transfer.qty,
                 IF transfer.fromEmail = Email THEN transfer.toEmail ELSE transfer.fromEmail, t)

_process_wallet_transfer(transfer, t) ==
    TransferBase("wallet_transfer", transfer, transfer.timestamp,
                 IF transfer.fromAccountType = "SPOT" THEN "transfer_out" ELSE "transfer_in",
                 "transfer_between_wallets", transfer.amount,
                 IF transfer.fromAccountType = "SPOT" THEN transfer.toAccountType
                 ELSE transfer.fromAccountType, t)

ProcessTransfer(flow, transfer, t) ==
    IF flow = "main_spot" THEN _process_main_transfer(transfer, t)
    ELSE IF flow = "sub_account" THEN _process_sub_transfer(transfer, t)
    ELSE _process_wallet_transfer(transfer, t)

\* Decimal(str(...)) of a non-numeric amount raises decimal.InvalidOperation
TransferRaises(flow, transfer) ==
    IF flow = "sub_account" THEN ~IsNumeric(transfer.qty) ELSE ~IsNumeric(transfer.amount)

\* what a fetch hands back: the transfers, self.errors, and whether the
\* BinanceAPIError left the method
FetchOutcome(answer, errs, flow, error_type) ==
    IF answer.failure = "none"
    THEN [transfers |-> answer.rows, errors |-> errs, raised |-> FALSE]
    ELSE IF HandleVerdict(answer.failure) = "raise"
    THEN [transfers |-> <<>>, errors |-> HandleLog(errs, answer.failure, flow), raised |-> TRUE]
    ELSE [transfers |-> answer.rows,
          errors |-> log_error(HandleLog(errs, answer.failure, flow), error_type,
                               answer.failure, flow),
          raised |-> FALSE]

_fetch_main_transfers(answer, errs) ==
    FetchOutcome(answer, errs, "main_spot", "main_transfer_fetch_error")

\* a fetch of the sub-account transfers that hands every BinanceAPIError to
\* handle_api_error
FetchSubEscalates(answer, errs) ==
    FetchOutcome([answer EXCEPT !.rows = IF answer.failure = "none" THEN @ ELSE <<>>],
                 errs, "sub_account", "sub_transfer_fetch_error")

\* one request; handle_api_error is skipped for API_KEY_INVALID
_fetch_sub_transfers(answer, errs) ==
    IF answer.failure = "none"
    THEN [transfers |-> answer.rows, errors |-> errs, raised |-> FALSE]
    ELSE [transfers |-> <<>>,
          errors |-> log_error(IF answer.failure # "API_KEY_INVALID"
                               THEN HandleLog(errs, answer.failure, "sub_account")
                               ELSE errs,
                               "sub_transfer_fetch_error", answer.failure, "sub_account"),
          raised |-> FALSE]

_fetch_wallet_transfers(answer, errs) ==
    FetchOutcome(answer, errs, "wallet_to_wallet", "wallet_transfer_fetch_error")

\* index of the first transfer whose processing raises, or Len(transfers) + 1
RECURSIVE FirstBadTransfer(_, _, _)
FirstBadTransfer(flow, transfers, i) ==
    IF i > Len(transfers) \/ TransferRaises(flow, transfers[i]) THEN i
    ELSE FirstBadTransfer(flow, transfers, i + 1)

StartTransfer ==
    /\ tfAccount \in {"main", "sub"}
    /\ tfDb \in BOOLEAN
    /\ tfAnswers \in {[main_spot |-> a, sub_account |-> b, wallet_to_wallet |-> c] :
                         a \in TransferAnswers("main_spot"),
                         b \in TransferAnswers("sub_account"),
                         c \in TransferAnswers("wallet_to_wallet")}
    /\ tfPc = "main_spot"
    /\ tfFetched = {}
    /\ tfErrors = <<>>
    /\ tfRaw = <<>>
    /\ tfCounts = [collected |-> 0, saved |-> 0, main_spot |-> 0, sub_account |-> 0,
                   wallet_to_wallet |-> 0]
    /\ tfResults = NoValue
    /\ tfRaisedBy = "none"

IdleTransfer ==
    /\ tfAccount = "main"
    /\ tfDb = TRUE
    /\ tfAnswers = [f \in SubFlows |-> [rows |-> <<>>, failure |-> "none"]]
    /\ tfPc = "idle"
    /\ tfFetched = {}
    /\ tfErrors = <<>>
    /\ tfRaw = <<>>
    /\ tfCounts = [collected |-> 0, saved |-> 0, main_spot |-> 0, sub_account |-> 0,
                   wallet_to_wallet |-> 0]
    /\ tfResults = NoValue
    /\ tfRaisedBy = "none"

\* one sub-flow of collect: the fetch, then for every transfer the raw
\* archive, the transformation and the save
CollectFlow(flow, out, next) ==
    /\ tfFetched' = tfFetched \cup {flow}
    /\ tfErrors' = out.errors
    /\ IF out.raised
       THEN /\ tfPc' = "raised"
            /\ tfRaisedBy' = "BinanceAPIError"
            /\ UNCHANGED <<tfRaw, tfCounts, tables, nextPid, lastSaved>>
       ELSE LET bad == FirstBadTransfer(flow, out.transfers, 1)
                good == SubSeq(out.transfers, 1, bad - 1)
                archived == SubSeq(out.transfers, 1, Min(bad, Len(out.transfers)))
                recs == [i \in 1..Len(good) |-> ProcessTransfer(flow, good[i], now)]
            IN /\ tfCounts' = [tfCounts EXCEPT ![flow] = Len(out.transfers),
                                               !.collected = @ + Len(out.transfers),
                                               !.saved = @ + Len(good)]
               /\ IF tfDb
                  THEN /\ tfRaw' = tfRaw \o [i \in 1..Len(archived) |->
                                                <<flow, archived[i].tranId>>]
                       /\ tables' = [tables EXCEPT !["transfer"] =
                                        SaveAll(@, "transfer", recs, nextPid)]
                       /\ nextPid' = nextPid + Len(recs)
                       /\ lastSaved' = IF recs = <<>> THEN lastSaved
                                       ELSE <<"transfer", recs[Len(recs)]>>
                  ELSE UNCHANGED <<tfRaw, tables, nextPid, lastSaved>>
               /\ IF bad <= Len(out.transfers)
                  THEN /\ tfPc' = "raised"
                       /\ tfRaisedBy' = "InvalidOperation"
                  ELSE /\ tfPc' = next
                       /\ UNCHANGED tfRaisedBy
    /\ UNCHANGED <<tfAccount, tfDb, tfAnswers, tfResults, uniqueIdx, now, outsideTransfer>>

\* 1. transfers between the main account and the trading accounts
TransferMain ==
    /\ tfPc = "main_spot"
    /\ CollectFlow("main_spot", _fetch_main_transfers(tfAnswers["main_spot"], tfErrors),
                   IF tfAccount = "main" THEN "sub_account" ELSE "wallet_to_wallet")

\* 2. sub-account transfers, under "if self.account_type == 'main'"
TransferSub ==
    /\ tfPc = "sub_account"
    /\ CollectFlow("sub_account", _fetch_sub_transfers(tfAnswers["sub_account"], tfErrors),
                   "wallet_to_wallet")

\* 3. universal wallet transfers
TransferWallet ==
    /\ tfPc = "wallet_to_wallet"
    /\ CollectFlow("wallet_to_wallet",
                   _fetch_wallet_transfers(tfAnswers["wallet_to_wallet"], tfErrors), "done")

\* results["errors"] = self.errors; return results
TransferReturn ==
    /\ tfPc = "done"
    /\ tfResults' = [transfers_collected |-> tfCounts.collected,
                     transfers_saved |-> tfCounts.saved,
                     transfer_types |-> [f \in SubFlows |-> tfCounts[f]],
                     errors |-> tfErrors]
    /\ tfPc' = "returned"
    /\ UNCHANGED <<tfAccount, tfDb, tfAnswers, tfFetched, tfErrors, tfRaw, tfCounts,
                   tfRaisedBy, dbVars, outsideTransfer>>

NextTransfer ==
    \/ TransferMain
    \/ TransferSub
    \/ TransferWallet
    \/ TransferReturn

\* ------------------------------------------------------------------------
\* C21
\* ------------------------------------------------------------------------
\* the sub-flows collect runs for the account type
DueFlows == IF tfAccount = "main" THEN SubFlows ELSE SubFlows \ {"sub_account"}

\* the sub-flow whose fetch was called last
LastFlow ==
    IF "wallet_to_wallet" \in tfFetched THEN "wallet_to_wallet"
    ELSE IF "sub_account" \in tfFetched THEN "sub_account" ELSE "main_spot"

\* C21: the sub-account transfers are requested only for account_type
\* "main"; an API_KEY_INVALID failure of that request does not end the run:
\* the wallet-to-wallet sub-flow is still fetched and a result is returned;
\* and a BinanceAPIError leaves collect only when the request of the main or
\* of the wallet sub-flow failed with API_KEY_INVALID, so a request failure
\* of any other category in one sub-flow leaves the other sub-flows fetched
\* and counted in the result.
C21_SubFlowsIndependent ==
    /\ "sub_account" \in tfFetched => tfAccount = "main"
    /\ tfPc \in {"wallet_to_wallet", "done", "returned"} => "main_spot" \in tfFetched
    /\ tfPc \in {"wallet_to_wallet", "done", "returned"} /\ tfAccount = "main"
          => "sub_account" \in tfFetched
    /\ tfPc = "raised" /\ tfRaisedBy = "BinanceAPIError"
          => /\ LastFlow # "sub_account"
             /\ tfAnswers[LastFlow].failure = "API_KEY_INVALID"
    /\ tfPc = "returned"
          => /\ tfFetched = DueFlows
             /\ tfResults.errors = tfErrors
             /\ \A f \in DueFlows :
                   tfResults.transfer_types[f] =
                      IF f = "sub_account" /\ tfAnswers[f].failure # "none" THEN 0
                      ELSE Len(tfAnswers[f].rows)

\* a main account whose main request hit the rate limit and whose sub-account
\* request was refused with API_KEY_INVALID still gets its wallet transfer
C21_Witness ==
    /\ tfPc = "returned"
    /\ tfAccount = "main"
    /\ tfAnswers["main_spot"].failure = "RATE_LIMIT"
    /\ tfAnswers["sub_account"].failure = "API_KEY_INVALID"
    /\ tfAnswers["wallet_to_wallet"].failure = "none"
    /\ tfResults.transfer_types["wallet_to_wallet"] = 1
    /\ Len(tfErrors) = 2

\* ------------------------------------------------------------------------
\* C22
\* ------------------------------------------------------------------------
\* the rows of out for one asset
RowsOfAsset(out, asset) == {i \in 1..Len(out) : out[i].asset = asset}

QuoteTier(symbol) ==
    IF symbol[2] \in Stablecoins THEN 1 ELSE IF symbol[2] \in MajorAssets THEN 2 ELSE 3

\* the symbols a discovery call found, before they are ordered
FoundSymbols ==
    IF fnCall.fn = "_discover_symbols" THEN fnCall.cached \cup fnCall.trading_pairs
    ELSE DiscoveredSymbols(fnCall.all_assets, fnCall.exchange_info)

\* C23: the list symbol discovery returns holds each discovered symbol exactly
\* once, and in it the symbols quoted in a stablecoin come before those quoted
\* in a major asset (BTC, ETH, BNB), which come before all the others.
C23_DiscoveryOrder ==
    Returned("_discover_symbols") \/ Returned("discover_symbols_from_data") =>
        /\ {fnOut[i] : i \in 1..Len(fnOut)} = FoundSymbols
        /\ Len(fnOut) = Cardinality(FoundSymbols)
        /\ \A i, j \in 1..Len(fnOut) : i < j => QuoteTier(fnOut[i]) <= QuoteTier(fnOut[j])

\* ------------------------------------------------------------------------
\* RateLimiter.acquire called by coroutines of one event loop
\* ------------------------------------------------------------------------
Callers == {1, 2}
NoCaller == 0
\* the client whose rate_limiter the callers share
limiter == 1
\* weight arguments of the calls
AcquireWeights == {1000, 2400, 3000}
\* the clock advances in thirds of a window (20 s)
TickStep == WindowTicks \div 3

StartLimiter ==
    /\ lock = NoCaller
    /\ acqPc = [c \in Callers |-> "idle"]
    /\ acqWeight = [c \in Callers |-> 0]
    /\ acqWake = [c \in Callers |-> 0]
    /\ granted = <<>>
    /\ suspensions = [c \in Callers |-> 0]
    /\ idleElapsed = FALSE

IdleLimiter == StartLimiter

\* calls begun so far
Begun == Len(granted) + Cardinality({c \in Callers : acqPc[c] # "idle"})

Suspended == {c \in Callers : acqPc[c] = "sleeping"}

\* a limiter that lets every call through
NeverExceeds(used, weight) == FALSE

\* self.weight_used + weight > self.weight_limit
WouldExceed(used, weight) == used + weight > weight_limit

\* a lock that is never held
LockAlwaysFree(holder) == TRUE

\* "async with self.lock" can be entered
LockFree(holder) == holder = NoCaller

\* self.weight_used += weight, and the return of acquire
Grant(c, used, start) ==
    /\ weight_used' = [weight_used EXCEPT ![limiter] = used + acqWeight[c]]
    /\ weight_window_start' = [weight_window_start EXCEPT ![limiter] = start]
    /\ granted' = Append(granted, [caller |-> c, weight |-> acqWeight[c], at |-> clk])
    /\ acqPc' = [acqPc EXCEPT ![c] = "idle"]

\* a coroutine calls acquire(weight) and waits for the lock
AcquireCall(c, weight) ==
    /\ acqPc[c] = "idle"
    /\ Begun < MaxAcquires
    /\ acqPc' = [acqPc EXCEPT ![c] = "lock"]
    /\ acqWeight' = [acqWeight EXCEPT ![c] = weight]
    /\ UNCHANGED <<lock, acqWake, granted, suspensions, idleElapsed, rateVars, outsideLimiter>>

\* the body of acquire up to its await: the window reset, the check, and
\* either the grant or the start of asyncio.sleep(wait_time) under the lock
AcquireEnter(c) ==
    /\ acqPc[c] = "lock"
    /\ LockFree(lock)
    /\ LET current_time == clk
           elapsed == current_time - weight_window_start[limiter] >= WindowTicks
           used == IF elapsed THEN 0 ELSE weight_used[limiter]
           start == IF elapsed THEN current_time ELSE weight_window_start[limiter]
           wait_time == WindowTicks - (current_time - start)
       IN IF WouldExceed(used, acqWeight[c]) /\ wait_time > 0
          THEN /\ lock' = c
               /\ acqPc' = [acqPc EXCEPT ![c] = "sleeping"]
               /\ acqWake' = [acqWake EXCEPT ![c] = current_time + wait_time]
               /\ suspensions' = [suspensions EXCEPT ![c] = @ + 1]
               /\ weight_used' = [weight_used EXCEPT ![limiter] = used]
               /\ weight_window_start' = [weight_window_start EXCEPT ![limiter] = start]
               /\ UNCHANGED granted
          ELSE /\ Grant(c, used, start)
               /\ UNCHANGED <<lock, acqWake, suspensions>>
    /\ UNCHANGED <<acqWeight, idleElapsed, clk, cliPc, cliWake, cliWeight, issued,
                   outsideLimiter>>

\* the sleep is over: "reset after waiting", the grant, the lock is released
AcquireWake(c) ==
    /\ acqPc[c] = "sleeping"
    /\ clk >= acqWake[c]
    /\ Grant(c, 0, clk)
    /\ lock' = IF lock = c THEN NoCaller ELSE lock
    /\ UNCHANGED <<acqWeight, acqWake, suspensions, idleElapsed, clk, cliPc, cliWake,
                   cliWeight, issued, outsideLimiter>>

\* time passes
LimiterElapse ==
    /\ clk < MaxWindows * WindowTicks
    /\ clk' = clk + TickStep
    /\ idleElapsed' = (idleElapsed \/ Suspended = {})
    /\ UNCHANGED <<lock, acqPc, acqWeight, acqWake, granted, suspensions, cliPc, cliWake,
                   cliWeight, issued, weight_used, weight_window_start, outsideLimiter>>

NextLimiter ==
    \/ \E c \in Callers, w \in AcquireWeights : AcquireCall(c, w)
    \/ \E c \in Callers : AcquireEnter(c)
    \/ \E c \in Callers : AcquireWake(c)
    \/ LimiterElapse

\* ------------------------------------------------------------------------
\* C24
\* ------------------------------------------------------------------------
GrantsOf(c) == SelectSeq(granted, LAMBDA g : g.caller = c)

\* ceil(n * w / b - 1) = ceil(n * w / b) - 1
MinSuspensions(n, w, b) == ((n * w + b - 1) \div b) - 1

\* C24: when one caller has made N sequential acquire calls, each of weight
\* W, on a limiter with budget B = weight_limit, issued back to back (no time
\* passes except while the caller is suspended), the caller was suspended at
\* least ceil(N*W/B - 1) times.
C24_SuspensionsLowerBound ==
    \A c \in Callers :
       LET mine == GrantsOf(c)
       IN (/\ mine # <<>>
           /\ Len(mine) = Len(granted)
           /\ \A i \in 1..Len(mine) : mine[i].weight = mine[1].weight
           /\ acqPc = [o \in Callers |-> "idle"]
           /\ ~idleElapsed)
          => suspensions[c] >= MinSuspensions(Len(mine), mine[1].weight, weight_limit)

\* three calls of weight 2400 in a row: the second and the third each wait
\* for the next window
C24_Witness ==
    /\ Len(GrantsOf(1)) = 3
    /\ Len(granted) = 3
    /\ \A i \in 1..3 : granted[i].weight = 2400
    /\ ~idleElapsed
    /\ acqPc[1] = "idle"
    /\ suspensions[1] = 2
    /\ MinSuspensions(3, 2400, weight_limit) = 2

\* ------------------------------------------------------------------------
\* C30
\* ------------------------------------------------------------------------
RECURSIVE GrantedSince(_, _)
\* total weight of the calls of grants completed at or after the tick from
GrantedSince(grants, from) ==
    IF grants = <<>> THEN 0
    ELSE (IF Head(grants).at >= from THEN Head(grants).weight ELSE 0)
         + GrantedSince(Tail(grants), from)

\* C30: whatever the interleaving of the coroutines calling acquire with
\* weights of at most weight_limit, weight_used never exceeds weight_limit and
\* always equals the total weight granted since weight_window_start.
C30_WeightUsedIsWindowSum ==
    /\ weight_used[limiter] <= weight_limit
    /\ weight_used[limiter] = GrantedSince(granted, weight_window_start[limiter])

\* the second caller waited for the next window behind the first one's grant,
\* and both were granted weight in the new window
C30_Witness ==
    /\ Len(granted) = 3
    /\ granted[1].caller # granted[2].caller
    /\ suspensions[granted[2].caller] = 1
    /\ weight_window_start[limiter] = WindowTicks
    /\ granted[2].at = WindowTicks
    /\ granted[3].at >= WindowTicks
    /\ weight_used[limiter] = granted[2].weight + granted[3].weight

\* ------------------------------------------------------------------------
\* Collector saves interleaved with the Reconciliation Engine
\* ------------------------------------------------------------------------
\* The engine accounts for a stored record: it sets reconciled and match_id
\* of a transfer or trade, or the recomputed cal_balance and the variance of a
\* balance row.
EngineReconciles(tbl, pid) ==
    /\ \E r \in tables[tbl] :
          /\ r.pid = pid
          /\ IF tbl = "balance"
             THEN /\ ~r.matched
                  /\ tables' = [tables EXCEPT ![tbl] =
                                   (@ \ {r}) \cup {[r EXCEPT !.matched = TRUE,
                                                             !.cal_balance = r.raw_balance + 1,
                                                             !.variance = 1]}]
             ELSE /\ ~r.reconciled
                  /\ tables' = [tables EXCEPT ![tbl] =
                                   (@ \ {r}) \cup {[r EXCEPT !.reconciled = TRUE,
                                                             !.match_id = "match-1"]}]
    /\ UNCHANGED <<nextPid, uniqueIdx, now, lastSaved, outsideSave>>

NextReingest ==
    \/ \E d \in DepositPayloads : IngestDeposit(d)
    \/ \E t \in TradePayloads, x \in Symbols : IngestTrade(t, x)
    \/ \E p \in SnapshotPayloads : IngestSnapshot(p)
    \/ \E tbl \in TableNames, pid \in 1..(2 * MaxSaves) : EngineReconciles(tbl, pid)

\* ------------------------------------------------------------------------
\* C25
\* ------------------------------------------------------------------------
\* the values of a row that the Reconciliation Engine owns
EngineFields(tbl, r) ==
    IF tbl = "balance"
    THEN <<r.cal_balance, r.cal_loan, r.cal_interest, r.cal_unrealised_pnl, r.variance>>
    ELSE <<r.reconciled, r.match_id>>

\* the engine has accounted for the row
EngineHandled(tbl, r) == IF tbl = "balance" THEN r.matched ELSE r.reconciled

\* C25: a save made by a collector (a step that advances the collector's
\* clock) leaves the engine-owned values of every row the engine has
\* accounted for as they were: reconciled and match_id of transfers and
\* trades, cal_* and variance of balance rows, also when the saved record has
\* the key of that row.
C25_UpsertKeepsEngineFields ==
    [][now' # now =>
          \A tbl \in TableNames :
              \A r \in tables[tbl] :
                  EngineHandled(tbl, r) =>
                      \E q \in tables'[tbl] :
                          q.pid = r.pid /\ EngineFields(tbl, q) = EngineFields(tbl, r)]_vars

\* ------------------------------------------------------------------------
\* C26
\* ------------------------------------------------------------------------
\* the records the exchange holds in chunk u
ChunkSize(u) ==
    Len(SelectSeq(history, LAMBDA p : /\ TimeOf(colKind, p) >= Chunks[u][1]
                                      /\ TimeOf(colKind, p) <= Chunks[u][2]))

\* C26: _fetch_deposits and _fetch_withdrawals end the loop of a chunk at its
\* first short or empty page, every full page having advanced the cursor of
\* the next request: after k full pages the chunk holds at least k * limit
\* records, so a finite chunk is left after finitely many requests.
C26_FullPagesAdvanceCursor ==
    colKind \in {"deposit", "withdraw"} /\ colPc = "fetch" /\ unitIdx <= NumUnits
        => pageNo * PageLimit <= ChunkSize(unitIdx)

\* ------------------------------------------------------------------------
\* C27
\* ------------------------------------------------------------------------
\* the records of book with a time in [start_time, end_time]
HeldInRange(book, start_time, end_time) ==
    SelectSeq(book, LAMBDA r : r.time >= start_time /\ r.time <= end_time)

\* C27: paginate_request and _fetch_trades_for_symbol return the records the
\* exchange holds in [start, end], each exactly once and none missing,
\* whatever the number of records and the page limit; paginate_request
\* always comes to its last page.
C27_PaginationComplete ==
    /\ fnCall.fn = "paginate_request" =>
          /\ fnPc # "looping"
          /\ fnPc = "returned" =>
                fnOut = HeldInRange(fnCall.book, fnCall.start_time, fnCall.end_time)
    /\ Returned("_fetch_trades_for_symbol") =>
          fnOut = HeldInRange(fnCall.book, TradeStart, TradeEnd)

\* ------------------------------------------------------------------------
\* C28
\* ------------------------------------------------------------------------
\* C28: distinct exchange events get distinct (source, external_id) keys, so
\* a save never overwrites the record of another event: the stored row of a
\* trade on one symbol is never replaced by the record of a trade on another
\* symbol that carries the same numeric trade id.
C28_DistinctEventsDistinctKeys ==
    [][\A r \in tables["trade"] : \A q \in tables'["trade"] :
          q.pid = r.pid => q.symbol = r.symbol]_vars

\* ------------------------------------------------------------------------
\* C29
\* ------------------------------------------------------------------------
\* C29: for every calendar date passed as reconciliation_date, the 1st and
\* 2nd day of a month included, reconcile_daily derives T-2 and T-1 and
\* comes back with a ReconciliationResult; it never raises.
C29_ReturnsForEveryDate ==
    recPc # "raised"

\* ------------------------------------------------------------------------
\* Specifications
\* ------------------------------------------------------------------------
\* sequential saves into the canonical tables
InitSave == InitDB /\ IdleRace /\ IdleRecon /\ IdleRate /\ IdleCollect /\ IdleTrade /\ IdleFn /\ IdleTransfer /\ IdleLimiter
SpecSave == InitSave /\ [][NextSave]_vars

\* two runs saving the same batch concurrently
InitRace == InitDB /\ StartRace /\ IdleRecon /\ IdleRate /\ IdleCollect /\ IdleTrade /\ IdleFn /\ IdleTransfer /\ IdleLimiter
SpecRace == InitRace /\ [][NextRace]_vars

\* one call of reconcile_daily
InitRecon == InitDB /\ uniqueIdx = TRUE /\ IdleRace /\ StartRecon /\ IdleRate /\ IdleCollect /\ IdleTrade /\ IdleFn /\ IdleTransfer /\ IdleLimiter
SpecRecon == InitRecon /\ [][NextRecon]_vars

\* clients of one account making requests
InitRate == InitDB /\ uniqueIdx = TRUE /\ IdleRace /\ IdleRecon /\ StartRate /\ IdleCollect /\ IdleTrade /\ IdleFn /\ IdleTransfer /\ IdleLimiter
SpecRate == InitRate /\ [][NextRate]_vars

\* one run of a deposit, withdrawal or snapshot collector
InitCollect == InitDB /\ uniqueIdx = TRUE /\ IdleRace /\ IdleRecon /\ IdleRate /\ StartCollect /\ IdleTrade /\ IdleFn /\ IdleTransfer /\ IdleLimiter
SpecCollect == InitCollect /\ [][NextCollect]_vars

\* consecutive runs of the trade collector
InitTrade == InitDB /\ uniqueIdx = TRUE /\ IdleRace /\ IdleRecon /\ IdleRate /\ IdleCollect /\ StartTrade /\ IdleFn /\ IdleTransfer /\ IdleLimiter
SpecTrade == InitTrade /\ [][NextTrade]_vars

\* one call of a function of the client or of a collector
InitFn == InitDB /\ uniqueIdx = TRUE /\ IdleRace /\ IdleRecon /\ IdleRate /\ IdleCollect /\ IdleTrade /\ StartFn /\ IdleTransfer /\ IdleLimiter
SpecFn == InitFn /\ [][NextFn]_vars

\* one run of the transfer collector
InitTransfer == InitDB /\ uniqueIdx = TRUE /\ IdleRace /\ IdleRecon /\ IdleRate /\ IdleCollect /\ IdleTrade /\ IdleFn /\ StartTransfer /\ IdleLimiter
SpecTransfer == InitTransfer /\ [][NextTransfer]_vars

\* coroutines calling acquire on one client's rate limiter
InitLimiter == InitDB /\ uniqueIdx = TRUE /\ IdleRace /\ IdleRecon /\ IdleRate /\ IdleCollect /\ IdleTrade /\ IdleFn /\ IdleTransfer /\ StartLimiter
SpecLimiter == InitLimiter /\ [][NextLimiter]_vars

\* collector saves and the engine's updates of the stored rows
InitReingest == InitSave /\ uniqueIdx = TRUE
SpecReingest == InitReingest /\ [][NextReingest]_vars
====
